---- MODULE Spec2Model ----
(***************************************************************************)
(* Model of the graph-batching and message-passing core of kgcnn:         *)
(*   kgcnn/literature/NMPN.py        make_nmpn (the forward pass)         *)
(*   kgcnn/layers/conv/mpnn_conv.py  TrafoEdgeNetMessages, MatMulMessages, *)
(*                                   GRUUpdate                             *)
(*   kgcnn/layers/base.py            GraphBaseLayer: __init__, get_config, *)
(*                                   assert_ragged_input_rank, map_values  *)
(*   kgcnn/layers/conv/acsf_conv.py  ACSFRadial, ACSFAngular               *)
(*   kgcnn/data/tudataset.py         GraphTUDataset.read_in_memory         *)
(*                                                                         *)
(* A ragged tensor of ragged_rank 1 is a record                            *)
(*   [values |-> <flat sequence of rows>, row_splits |-> <B+1 offsets>].   *)
(* Numbers are exact rationals <<num, den>> in lowest terms (den > 0), so  *)
(* that a mean is a quotient and not a rounded integer.                    *)
(***************************************************************************)
EXTENDS Integers, Sequences, FiniteSets, TLC

VARIABLES
    cfg,      \* make_nmpn arguments: depth, pooling_method
    env,      \* the variables of make_nmpn: inputs, n, ed, edi, edge_net, eu
    pc,       \* position in make_nmpn
    i,        \* the loop variable of `for i in range(0, depth)`
    hist,     \* history: the node states written so far, hist[1] the projection
    steps,    \* history: the layer calls made inside the loop, in order
    head_in,  \* the node state handed to the output head
    pin,      \* gather/pool on its own: the input batch
    pout,     \* gather/pool on its own: the operation applied and its result
    oin,      \* a layer on two ragged inputs: the inputs [x, y]
    oout,     \* a layer on two ragged inputs: the layer called and its result
    ain,      \* ACSFRadial: the layer's configuration and its inputs
    aout      \* ACSFRadial: what the call did and returned

vars == <<cfg, env, pc, i, hist, steps, head_in, pin, pout, oin, oout, ain, aout>>
passVars == <<cfg, env, pc, i, hist, steps, head_in>>
poolVars == <<pin, pout>>
opsVars == <<oin, oout>>
acsfVars == <<ain, aout>>

(***************************************************************************)
(* Bounds of the model.                                                    *)
(***************************************************************************)
MaxGraphs == 2
MaxNodes == 2
MaxEdges == 1
PoolMaxNodes == 3
PoolMaxEdges == 2
OpsMaxRows == 3
AcsfMaxAtoms == 2
AcsfMaxEdges == 2
AcsfMaxM == 2
MotionMaxAtoms == 2
MotionMaxEdges == 2
AngMaxAtoms == 3
AngMaxTriples == 1
TrafoMaxWidth == 3
TrafoMaxUnits == 2
FcMaxEdges == 2
FcMaxSets == 2
FcMaxDist == 4
CastMaxBatch == 2
CastMaxLen == 2
MapMaxRows == 2
TuMaxGraphs == 2
NewMaxElements == 2
NewMaxRelations == 2
TuMaxNodes == 2
TuMaxLines == 2
MaxDepth == 2
NodeDim == 2

(***************************************************************************)
(* Exact arithmetic.                                                       *)
(***************************************************************************)
Abs(x) == IF x < 0 THEN -x ELSE x

RECURSIVE GCD(_, _)
GCD(a, b) == IF b = 0 THEN a ELSE GCD(b, a % b)

Norm(num, den) ==
    LET g == GCD(Abs(num), den)
    IN  <<num \div g, den \div g>>

RInt(k) == <<k, 1>>
RZero == RInt(0)
ROne == RInt(1)
RAdd(p, q) == Norm(p[1] * q[2] + q[1] * p[2], p[2] * q[2])
RMul(p, q) == Norm(p[1] * q[1], p[2] * q[2])
RDivN(p, k) == Norm(p[1], p[2] * k)

VZero(w) == [k \in 1..w |-> RZero]
VAdd(u, v) == [k \in 1..Len(u) |-> RAdd(u[k], v[k])]
VDivN(u, c) == [k \in 1..Len(u) |-> RDivN(u[k], c)]

RECURSIVE RSum(_)
RSum(s) == IF s = <<>> THEN RZero ELSE RAdd(Head(s), RSum(Tail(s)))

RECURSIVE SumSeq(_)
SumSeq(s) == IF s = <<>> THEN 0 ELSE Head(s) + SumSeq(Tail(s))

(***************************************************************************)
(* Ragged tensors.                                                         *)
(***************************************************************************)
\* dim is the static inner shape (the feature width), which a tensor keeps
\* even when it holds no row.
Ragged(vals, splits, d) == [values |-> vals, row_splits |-> splits, dim |-> d]

Err(kind) == [error |-> kind]
IsError(x) == "error" \in DOMAIN x

\* tf.RaggedTensor.row_lengths()
RowLengths(x) ==
    [g \in 1..(Len(x.row_splits) - 1) |-> x.row_splits[g + 1] - x.row_splits[g]]

\* exclusive prefix sum of the lengths, B+1 entries
SplitsOf(lens) ==
    [k \in 1..(Len(lens) + 1) |-> SumSeq(SubSeq(lens, 1, k - 1))]

NumGraphs(x) == Len(x.row_splits) - 1

\* the graph of a row with both ends of its range taken inclusive
GraphOfRowInclusive(x, p) ==
    CHOOSE g \in 1..NumGraphs(x) : x.row_splits[g] <= p - 1 /\ p - 1 <= x.row_splits[g + 1]

\* the graph (1-based) that flat row p (1-based) belongs to
GraphOfRow(x, p) ==
    CHOOSE g \in 1..NumGraphs(x) : x.row_splits[g] < p /\ p <= x.row_splits[g + 1]

\* the single-graph batch holding graph g of x
Slice(x, g) ==
    Ragged(SubSeq(x.values, x.row_splits[g] + 1, x.row_splits[g + 1]),
           <<0, x.row_splits[g + 1] - x.row_splits[g]>>, x.dim)

\* every row has the static width, and the splits partition the rows
WellFormed(x) ==
    /\ ~IsError(x)
    /\ Len(x.row_splits) >= 1
    /\ x.row_splits[1] = 0
    /\ x.row_splits[Len(x.row_splits)] = Len(x.values)
    /\ \A g \in 1..NumGraphs(x) : x.row_splits[g] <= x.row_splits[g + 1]
    /\ \A p \in 1..Len(x.values) : Len(x.values[p]) = x.dim

(***************************************************************************)
(* Layers of kgcnn that make_nmpn calls.                                   *)
(***************************************************************************)

\* kgcnn.layers.keras.Dense(node_dim, activation="linear") on a ragged tensor:
\* a learned row-wise map to `units` features that keeps the partition.
\* The kernel is fixed during a pass; here kernel[k] = k on a scalar input.
DenseNodes(x, units) ==
    Ragged([p \in 1..Len(x.values) |->
               [k \in 1..units |-> RMul(RInt(k), x.values[p][1])]],
           x.row_splits, units)

\* kgcnn.layers.keras.Dense(node_dim * node_dim, **edge_dense): as above, with
\* kernel and activation folded into one fixed row-wise map to {-1, 0, 1}.
DenseEdges(x, units) ==
    Ragged([p \in 1..Len(x.values) |->
               [k \in 1..units |-> RInt(((x.values[p][1][1] + k) % 3) - 1)]],
           x.row_splits, units)

\* kgcnn.ops.models.generate_node_embedding / generate_edge_embedding: an
\* input that already has a feature dimension is passed through.
generate_embedding(x) == x

\* a gather that adds the graph offset and checks the position against the
\* flat node array only
GatherSlotFlat(nodes, index, slot) ==
    IF \E p \in 1..Len(index.values) :
          nodes.row_splits[GraphOfRow(index, p)] + index.values[p][slot] + 1
              > Len(nodes.values)
    THEN Err("IndexOutOfRange")
    ELSE Ragged([p \in 1..Len(index.values) |->
                    nodes.values[nodes.row_splits[GraphOfRow(index, p)]
                                 + index.values[p][slot] + 1]],
                index.row_splits, nodes.dim)

\* GatherNodesOutgoing()([nodes, index]): one row per tuple, the row of the
\* node at slot 2 (the outgoing node j of (i, j)), translated into the flat
\* node row id by adding the offset of the tuple's graph.  A position that
\* is not below the node count of its own graph is IndexOutOfRange.
GatherSlot(nodes, index, slot) ==
    IF \E p \in 1..Len(index.values) :
          \/ index.values[p][slot] < 0
          \/ index.values[p][slot] >= RowLengths(nodes)[GraphOfRow(index, p)]
    THEN Err("IndexOutOfRange")
    ELSE Ragged([p \in 1..Len(index.values) |->
                    nodes.values[nodes.row_splits[GraphOfRow(index, p)]
                                 + index.values[p][slot] + 1]],
                index.row_splits, nodes.dim)

GatherNodesOutgoing(nodes, index) == GatherSlot(nodes, index, 2)
GatherNodesIngoing(nodes, index) == GatherSlot(nodes, index, 1)

\* the graph-local position taken as the flat row id, the offset forgotten
FlatTargetNoOffset(nodes, index, slot, p) == index.values[p][slot] + 1

\* The flat node row (1-based) that tuple p of `index` targets through `slot`:
\* the graph-local position plus the node offset of the tuple's graph.
FlatTarget(nodes, index, slot, p) ==
    nodes.row_splits[GraphOfRow(index, p)] + index.values[p][slot] + 1

\* a scatter that overwrites instead of adding: the first tuple wins
RECURSIVE SegmentFirst(_, _, _, _, _, _)
SegmentFirst(nodes, vals, index, slot, t, p) ==
    IF p > Len(index.values) THEN VZero(vals.dim)
    ELSE IF FlatTarget(nodes, index, slot, p) = t
         THEN vals.values[p]
         ELSE SegmentFirst(nodes, vals, index, slot, t, p + 1)

\* sum of the value rows whose tuple targets flat row t, in tuple order
RECURSIVE SegmentSum(_, _, _, _, _, _)
SegmentSum(nodes, vals, index, slot, t, p) ==
    IF p > Len(index.values) THEN VZero(vals.dim)
    ELSE IF FlatTarget(nodes, index, slot, p) = t
         THEN VAdd(vals.values[p], SegmentSum(nodes, vals, index, slot, t, p + 1))
         ELSE SegmentSum(nodes, vals, index, slot, t, p + 1)

\* the mean's divisor taken per graph instead of per target
SegmentCountOfGraph(nodes, index, slot, t) ==
    Cardinality({p \in 1..Len(index.values) : GraphOfRow(index, p) = GraphOfRow(nodes, t)})

SegmentCount(nodes, index, slot, t) ==
    Cardinality({p \in 1..Len(index.values) : FlatTarget(nodes, index, slot, p) = t})

\* Segment-pool of per-tuple values onto the node at `slot` of each tuple:
\* one row per node, partition of `nodes`; "sum" or "mean"; a node without
\* contribution gets the aggregation identity 0.
PoolSlot(nodes, vals, index, slot, method) ==
    IF \E p \in 1..Len(index.values) :
          \/ index.values[p][slot] < 0
          \/ index.values[p][slot] >= RowLengths(nodes)[GraphOfRow(index, p)]
    THEN Err("IndexOutOfRange")
    ELSE Ragged([t \in 1..Len(nodes.values) |->
                    LET s == SegmentSum(nodes, vals, index, slot, t, 1)
                        c == SegmentCount(nodes, index, slot, t)
                    IN  IF method = "mean" /\ c > 0 THEN VDivN(s, c) ELSE s],
                nodes.row_splits, vals.dim)

\* PoolingLocalEdges(pooling_method)([nodes, values, index]): pools onto the
\* first index of each tuple (the ingoing node i of (i, j)).
PoolingLocalEdges(nodes, vals, index, method) == PoolSlot(nodes, vals, index, 1, method)

(***************************************************************************)
(* kgcnn/layers/conv/mpnn_conv.py                                          *)
(***************************************************************************)

\* the splits start at 0, do not decrease and end at n
SplitsFit(sp, n) ==
    /\ sp[1] = 0
    /\ sp[Len(sp)] = n
    /\ \A g \in 1..(Len(sp) - 1) : sp[g] <= sp[g + 1]

\* tf.RaggedTensor.from_row_splits(values, row_splits, validate): the
\* validation looks at the splits only
FromRowSplits(vals, splits, d, validate) ==
    IF validate /\ ~SplitsFit(splits, Len(vals))
    THEN Err("InvalidArgument")
    ELSE Ragged(vals, splits, d)

\* the reshape filling the matrix column by column
ReshapeRowColumnMajor(row, units_out, units_in) ==
    [r \in 1..units_out |-> [c \in 1..units_in |-> row[(c - 1) * units_out + r]]]

\* tf.reshape(dens_trafo, (shape(dens_trafo)[0], units_out, units_in)): row-major
ReshapeRow(row, units_out, units_in) ==
    [r \in 1..units_out |-> [c \in 1..units_in |-> row[(r - 1) * units_in + c]]]

\* TrafoEdgeNetMessages.call after the dense layer: values reshaped to one
\* (units_out, units_in) matrix per row, the partition kept.
TrafoReshape(x, units_out, units_in, validate) ==
    IF Len(x.values) > 0 /\ x.dim # units_out * units_in
    THEN Err("ShapeMismatch")
    ELSE FromRowSplits([p \in 1..Len(x.values) |->
                           ReshapeRow(x.values[p], units_out, units_in)],
                       x.row_splits, <<units_out, units_in>>, validate)

\* self.lay_dense, kgcnn.layers.keras.Dense(units) on a ragged tensor of any
\* width: a row-wise linear map that keeps the partition; here
\* kernel[c][k] = k + c
LayDense(x, units) ==
    Ragged([p \in 1..Len(x.values) |->
               [k \in 1..units |->
                   RSum([c \in 1..x.dim |-> RMul(RInt(k + c), x.values[p][c])])]],
           x.row_splits, units)

\* TrafoEdgeNetMessages(target_shape).call(inputs), lines 41-56: the dense
\* layer of units_out * units_in units, then the reshape
TrafoEdgeNetMessages(x, target_shape, validate) ==
    TrafoReshape(LayDense(x, target_shape[1] * target_shape[2]),
                 target_shape[1], target_shape[2], validate)

\* one row of tf.keras.backend.batch_dot: matrix times vector
MatVec(m, v) ==
    [r \in 1..Len(m) |-> RSum([c \in 1..Len(v) |-> RMul(m[r][c], v[c])])]

\* The tensor runtime on two flat tensors of na and nb rows: equal counts go
\* row by row, a single row is broadcast to the other count, anything else
\* is a shape error (-1).
BatchRows(na, nb) ==
    IF na = nb THEN na
    ELSE IF na = 1 THEN nb
    ELSE IF nb = 1 THEN na
    ELSE -1

BRow(rows, p) == IF Len(rows) = 1 THEN rows[1] ELSE rows[p]

\* the output built on the row splits of the matrices input (inputs[0])
MatMulMessagesTrafoSplits(trafo, edges, validate) ==
    IF BatchRows(Len(trafo.values), Len(edges.values)) < 0 \/ trafo.dim[2] # edges.dim
    THEN Err("ShapeMismatch")
    ELSE FromRowSplits([p \in 1..BatchRows(Len(trafo.values), Len(edges.values)) |->
                           MatVec(BRow(trafo.values, p), BRow(edges.values, p))],
                       trafo.row_splits, trafo.dim[1], validate)

\* MatMulMessages.call([trafo_mat, edges]): batch_dot on the values, the
\* output carries the row splits of the edges input (inputs[1]).
MatMulMessages(trafo, edges, validate) ==
    IF BatchRows(Len(trafo.values), Len(edges.values)) < 0 \/ trafo.dim[2] # edges.dim
    THEN Err("ShapeMismatch")
    ELSE FromRowSplits([p \in 1..BatchRows(Len(trafo.values), Len(edges.values)) |->
                           MatVec(BRow(trafo.values, p), BRow(edges.values, p))],
                       edges.row_splits, trafo.dim[1], validate)

\* tf.keras.layers.GRUCell(units)(inputs, states) on flat rows: the learned
\* cell is outside this repository; it stands here as the recurrent update
\* new state = previous state + input, row by row, of the state's width.
GRUCell(x, h) ==
    [p \in 1..BatchRows(Len(x), Len(h)) |-> VAdd(BRow(h, p), BRow(x, p))]

\* row_lengths() handed to from_row_splits in place of row_splits
GRUUpdateRowLengths(nodes, updates, validate) ==
    IF BatchRows(Len(updates.values), Len(nodes.values)) < 0 \/ nodes.dim # updates.dim
    THEN Err("ShapeMismatch")
    ELSE FromRowSplits(GRUCell(updates.values, nodes.values),
                       RowLengths(nodes), nodes.dim, validate)

\* GRUUpdate.call([nodes, updates]): the cell on the values, the output
\* carries the row splits of the nodes input (inputs[0]).
GRUUpdate(nodes, updates, validate) ==
    IF BatchRows(Len(updates.values), Len(nodes.values)) < 0 \/ nodes.dim # updates.dim
    THEN Err("ShapeMismatch")
    ELSE FromRowSplits(GRUCell(updates.values, nodes.values),
                       nodes.row_splits, nodes.dim, validate)

(***************************************************************************)
(* kgcnn/layers/base.py: GraphBaseLayer.map_values                         *)
(***************************************************************************)
\* fun on a list of two value tensors: an elementwise sum (such as the
\* lazy add, subtract and multiply layers hand to map_values)
FunOnValues(a, b) ==
    IF BatchRows(Len(a), Len(b)) < 0
    THEN Err("InvalidArgument")
    ELSE [values |-> [p \in 1..BatchRows(Len(a), Len(b)) |-> VAdd(BRow(a, p), BRow(b, p))]]

\* fun on the ragged tensors themselves (the fallback): the runtime's ragged
\* elementwise op, which takes inputs of one partition only
FunOnRagged(x, y) ==
    IF ~WellFormed(x) \/ ~WellFormed(y) \/ x.row_splits # y.row_splits
    THEN Err("InvalidArgument")
    ELSE Ragged(FunOnValues(x.values, y.values).values, x.row_splits, x.dim)

\* the output built on the row splits of the last input
MapValuesLastSplits(x, y, validate) ==
    IF ~validate
    THEN LET out == FunOnValues(x.values, y.values)
         IN  IF IsError(out) THEN out
             ELSE FromRowSplits(out.values, y.row_splits, x.dim, validate)
    ELSE FunOnRagged(x, y)

\* map_values(fun, [x, y]) without an axis argument, x and y ragged of
\* ragged_rank 1 (lines 148-156, fallback line 171): with ragged_validate off
\* fun is called on the values and the output is built on inputs[0].row_splits
\* with validate=False; with ragged_validate on fun is called on the inputs.
MapValues(x, y, validate) ==
    IF ~validate
    THEN LET out == FunOnValues(x.values, y.values)
         IN  IF IsError(out) THEN out
             ELSE FromRowSplits(out.values, x.row_splits, x.dim, validate)
    ELSE FunOnRagged(x, y)

(***************************************************************************)
(* kgcnn/literature/NMPN.py: make_nmpn, one forward pass of the model.     *)
(***************************************************************************)
None == [none |-> TRUE]

\* GraphBaseLayer.__init__(ragged_validate=False): the layers of make_nmpn
\* are built with the default.
ragged_validate == FALSE

\* TrafoMatMulMessages(node_dim)([edge_net, eu]): the edge_net rows reshaped
\* to (node_dim, width of eu) matrices, then multiplied onto the messages.
TrafoMatMulMessages(units, trafo, edges) ==
    LET m == TrafoReshape(trafo, units, edges.dim, ragged_validate)
    IN  IF IsError(m) THEN m ELSE MatMulMessages(m, edges, ragged_validate)

\* lines 86-92: embeddings, the projection of the nodes, the edge network,
\* the one GRUUpdate layer (and with it the one set of cell weights)
StmtEmbed(e) ==
    LET n0 == generate_embedding(e.node_input)
        ed0 == generate_embedding(e.edge_input)
    IN  [e EXCEPT !.n = DenseNodes(n0, NodeDim),
                  !.ed = ed0,
                  !.edi = e.edge_index_input,
                  !.edge_net = DenseEdges(ed0, NodeDim * NodeDim),
                  !.gru = [units |-> NodeDim, instance |-> 1]]

\* an off-by-one loop bound: range(0, depth + 1)
LoopContinuesInclusive(k, depth) == k <= depth

\* line 94: for i in range(0, depth)
LoopContinues(k, depth) == k < depth

\* the gather reading the raw node input instead of the current state n
StmtGatherFromInput(e) == [e EXCEPT !.eu = GatherNodesOutgoing(e.node_input, e.edi)]

\* line 95: eu = GatherNodesOutgoing()([n, edi])
StmtGather(e) == [e EXCEPT !.eu = GatherNodesOutgoing(e.n, e.edi)]

\* line 96: eu = TrafoMatMulMessages(node_dim, )([edge_net, eu])
StmtMatMul(e) == [e EXCEPT !.eu = TrafoMatMulMessages(NodeDim, e.edge_net, e.eu)]

\* the messages pooled onto the node they were gathered from
StmtPoolOutgoing(e, method) == [e EXCEPT !.eu = PoolSlot(e.n, e.eu, e.edi, 2, method)]

\* lines 97-98: eu = PoolingLocalEdges(**pooling_args)([n, eu, edi])
StmtPool(e, method) == [e EXCEPT !.eu = PoolingLocalEdges(e.n, e.eu, e.edi, method)]

\* the update with a GRUUpdate layer made anew in the loop body
StmtUpdateFreshCell(e) ==
    [e EXCEPT !.gru = [units |-> NodeDim, instance |-> e.gru.instance + 1],
              !.n = GRUUpdate(e.n, e.eu, ragged_validate)]

\* line 99: n = gru([n, eu])
StmtUpdate(e) == [e EXCEPT !.n = GRUUpdate(e.n, e.eu, ragged_validate)]

\* PoolingNodes(**pooling_args)(n): the sum or mean of the node rows of each
\* graph, one row per graph
PoolingNodes(nodes, method) ==
    [g \in 1..NumGraphs(nodes) |->
        LET rows == Slice(nodes, g).values
            sum == [k \in 1..nodes.dim |-> RSum([p \in 1..Len(rows) |-> rows[p][k]])]
        IN  IF method = "mean" /\ Len(rows) > 0 THEN VDivN(sum, Len(rows)) ELSE sum]

\* Set2Set(**set2set_args)(Dense(channels)(n)): one row per graph, a function
\* of the node rows of that graph, kept as the rows it reads
Set2Set(nodes) ==
    [g \in 1..NumGraphs(nodes) |-> [set2set |-> Slice(nodes, g).values]]

\* MLP(**output_mlp): a row-wise map, kept as the row it reads
MLP(rows) == [p \in 1..Len(rows) |-> [mlp |-> rows[p]]]

\* a head chosen by use_set2set alone
SelectHeadBySet2Set(output_mode, use_set2set) ==
    IF use_set2set THEN "Set2Set"
    ELSE IF output_mode = "graph" THEN "PoolingNodes" ELSE "node"

\* lines 101-111: the branch taken for output_embedding["output_mode"] and
\* use_set2set
SelectHead(output_mode, use_set2set) ==
    IF output_mode = "graph"
    THEN IF use_set2set THEN "Set2Set" ELSE "PoolingNodes"
    ELSE "node"

\* lines 101-114: main_output, with the head that made it and the node
\* state it read.  In mode 'node' the rows keep the partition of n; the cast
\* of line 113 to a dense tensor is not part of the record.
StmtOutput(e, c) ==
    LET head == SelectHead(c.output_mode, c.use_set2set)
    IN  [e EXCEPT !.main_output =
            [heads |-> <<head>>,
             input |-> e.n,
             rows |-> CASE head = "Set2Set" -> MLP(Set2Set(e.n))
                        [] head = "PoolingNodes" -> MLP(PoolingNodes(e.n, c.pooling_method))
                        [] head = "node" -> MLP(e.n.values),
             row_splits |-> IF head = "node" THEN e.n.row_splits ELSE None]]

\* the order of the statements in the loop body
AfterStep(step) ==
    CASE step = "gather" -> "matmul"
      [] step = "matmul" -> "pool"
      [] step = "pool"   -> "update"
      [] step = "update" -> "loop"

\* A batch: `lens` nodes and `elens` edges per graph, `idx` the flat list of
\* edge-index pairs.  Node and edge attributes are scalars, distinct per row.
Batch(lens, elens, idx) ==
    [node_input |-> Ragged([p \in 1..SumSeq(lens) |-> <<RInt(p)>>], SplitsOf(lens), 1),
     edge_input |-> Ragged([q \in 1..SumSeq(elens) |-> <<RInt(q)>>], SplitsOf(elens), 1),
     edge_index_input |-> Ragged(idx, SplitsOf(elens), 2),
     n |-> None, ed |-> None, edi |-> None, edge_net |-> None, gru |-> None,
     eu |-> None, main_output |-> None]

\* every pair of `idx` holds positions of its own graph
ValidIndex(lens, elens, idx) ==
    \A p \in 1..Len(idx) :
        LET g == CHOOSE h \in 1..Len(elens) :
                     SplitsOf(elens)[h] < p /\ p <= SplitsOf(elens)[h + 1]
        IN  idx[p][1] < lens[g] /\ idx[p][2] < lens[g]

\* the batch of two graphs with 2 and 3 nodes and the edges [(0, 1)] and
\* [(0, 1), (1, 2)]
ExampleBatch == Batch(<<2, 3>>, <<1, 2>>, <<<<0, 1>>, <<0, 1>>, <<1, 2>>>>)

PassInit ==
    /\ \/ \E B \in 1..MaxGraphs :
            \E lens \in [1..B -> 1..MaxNodes], elens \in [1..B -> 0..MaxEdges] :
                /\ SumSeq(elens) <= MaxEdges
                /\ \E idx \in [1..SumSeq(elens) ->
                                (0..(MaxNodes - 1)) \X (0..(MaxNodes - 1))] :
                       /\ ValidIndex(lens, elens, idx)
                       /\ env = Batch(lens, elens, idx)
       \/ env = ExampleBatch
    /\ cfg \in [depth : 0..MaxDepth, pooling_method : {"sum", "mean"},
                output_mode : {"graph", "node"}, use_set2set : BOOLEAN]
    /\ pc = "start"
    /\ i = 0
    /\ hist = <<>>
    /\ steps = <<>>
    /\ head_in = None

PassIdle ==
    /\ cfg = None
    /\ env = None
    /\ pc = "idle"
    /\ i = 0
    /\ hist = <<>>
    /\ steps = <<>>
    /\ head_in = None

Embed ==
    /\ pc = "start"
    /\ env' = StmtEmbed(env)
    /\ hist' = <<env'.n>>
    /\ pc' = "loop"
    /\ UNCHANGED <<cfg, i, steps, head_in, poolVars, opsVars, acsfVars>>

Gather ==
    /\ pc = "loop"
    /\ LoopContinues(i, cfg.depth)
    /\ env' = StmtGather(env)
    /\ steps' = Append(steps, "gather")
    /\ pc' = IF IsError(env'.eu) THEN "error" ELSE AfterStep("gather")
    /\ UNCHANGED <<cfg, i, hist, head_in, poolVars, opsVars, acsfVars>>

MatMul ==
    /\ pc = "matmul"
    /\ env' = StmtMatMul(env)
    /\ steps' = Append(steps, "matmul")
    /\ pc' = IF IsError(env'.eu) THEN "error" ELSE AfterStep("matmul")
    /\ UNCHANGED <<cfg, i, hist, head_in, poolVars, opsVars, acsfVars>>

Pool ==
    /\ pc = "pool"
    /\ env' = StmtPool(env, cfg.pooling_method)
    /\ steps' = Append(steps, "pool")
    /\ pc' = IF IsError(env'.eu) THEN "error" ELSE AfterStep("pool")
    /\ UNCHANGED <<cfg, i, hist, head_in, poolVars, opsVars, acsfVars>>

Update ==
    /\ pc = "update"
    /\ env' = StmtUpdate(env)
    /\ steps' = Append(steps, "update")
    /\ hist' = Append(hist, env'.n)
    /\ i' = i + 1
    /\ pc' = IF IsError(env'.n) THEN "error" ELSE AfterStep("update")
    /\ UNCHANGED <<cfg, head_in, poolVars, opsVars, acsfVars>>

\* lines 101-114: the output head reads n
OutputHead ==
    /\ pc = "loop"
    /\ ~LoopContinues(i, cfg.depth)
    /\ head_in' = env.n
    /\ env' = StmtOutput(env, cfg)
    /\ pc' = "done"
    /\ UNCHANGED <<cfg, i, hist, steps, poolVars, opsVars, acsfVars>>

(***************************************************************************)
(* kgcnn/data/tudataset.py: the node degree read_in_memory stores.         *)
(***************************************************************************)
\* the degree counted on the other column, x[:, 1]
NodeDegreeOtherColumn(lens, index) ==
    IF \E p \in 1..Len(index.values) :
          index.values[p][2] >= lens[GraphOfRow(index, p)]
    THEN Err("IndexError")
    ELSE [node_degree |->
             [g \in 1..Len(lens) |->
                 [k \in 1..lens[g] |->
                     Cardinality({p \in (index.row_splits[g] + 1)..index.row_splits[g + 1] :
                                     index.values[p][2] = k - 1})]]]

\* lines 153-156: node_degree[i][nod_id] = nod_counts with
\* nod_id, nod_counts = np.unique(x[:, 0], return_counts=True), x the edge
\* indices of graph i; an id outside the graph's nodes is numpy's IndexError.
NodeDegree(lens, index) ==
    IF \E p \in 1..Len(index.values) :
          index.values[p][1] >= lens[GraphOfRow(index, p)]
    THEN Err("IndexError")
    ELSE [node_degree |->
             [g \in 1..Len(lens) |->
                 [k \in 1..lens[g] |->
                     Cardinality({p \in (index.row_splits[g] + 1)..index.row_splits[g + 1] :
                                     index.values[p][1] = k - 1})]]]

(***************************************************************************)
(* Gather and pool applied on their own to a batch.                        *)
(***************************************************************************)
\* the rows of x reordered: row p of the result is row perm[p] of x
Permute(x, perm) ==
    Ragged([p \in 1..Len(x.values) |-> x.values[perm[p]]], x.row_splits, x.dim)

\* the permutations of the tuples that keep every tuple in its graph
EdgePermutations(index) ==
    {f \in [1..Len(index.values) -> 1..Len(index.values)] :
        /\ \A p, q \in 1..Len(index.values) : p # q => f[p] # f[q]
        /\ \A p \in 1..Len(index.values) : GraphOfRow(index, f[p]) = GraphOfRow(index, p)}

AllOnes(x) == Ragged([p \in 1..Len(x.values) |-> <<ROne>>], x.row_splits, 1)

PoolBatch(lens, elens, idx) ==
    [nodes |-> Ragged([p \in 1..SumSeq(lens) |-> <<RInt(p)>>], SplitsOf(lens), 1),
     vals  |-> Ragged([q \in 1..SumSeq(elens) |-> <<RInt(q)>>], SplitsOf(elens), 1),
     index |-> Ragged(idx, SplitsOf(elens), 2)]

\* Any batch of at most PoolMaxNodes nodes and PoolMaxEdges edges in all, the
\* edge indices up to one position past the nodes of the graph.
PoolInit ==
    /\ \E B \in 1..MaxGraphs :
        \E lens \in [1..B -> 1..PoolMaxNodes], elens \in [1..B -> 0..PoolMaxEdges] :
            /\ SumSeq(lens) <= PoolMaxNodes
            /\ SumSeq(elens) <= PoolMaxEdges
            /\ \E idx \in [1..SumSeq(elens) -> (0..PoolMaxNodes) \X (0..PoolMaxNodes)] :
                   /\ \A p \in 1..Len(idx) :
                          LET g == GraphOfRow(Ragged(idx, SplitsOf(elens), 2), p)
                          IN  idx[p][1] <= lens[g] /\ idx[p][2] <= lens[g]
                   /\ pin = PoolBatch(lens, elens, idx)
    /\ pout = None

PoolIdle == pin = None /\ pout = None

ApplyGather ==
    /\ pin # None /\ pout = None
    /\ pout' = [op |-> "gather", res |-> GatherNodesOutgoing(pin.nodes, pin.index)]
    /\ UNCHANGED <<pin, passVars, opsVars, acsfVars>>

ApplyPool ==
    /\ pin # None /\ pout = None
    /\ \E method \in {"sum", "mean"} :
          pout' = [op |-> "pool", method |-> method,
                   res |-> PoolingLocalEdges(pin.nodes, pin.vals, pin.index, method)]
    /\ UNCHANGED <<pin, passVars, opsVars, acsfVars>>

ApplyPoolPerGraph ==
    /\ pin # None /\ pout = None
    /\ \E method \in {"sum", "mean"} :
          pout' = [op |-> "pergraph", method |-> method,
                   res |-> [g \in 1..NumGraphs(pin.nodes) |->
                               PoolingLocalEdges(Slice(pin.nodes, g), Slice(pin.vals, g),
                                                 Slice(pin.index, g), method)]]
    /\ UNCHANGED <<pin, passVars, opsVars, acsfVars>>

ApplyPoolPermuted ==
    /\ pin # None /\ pout = None
    /\ \E method \in {"sum", "mean"}, perm \in EdgePermutations(pin.index) :
          pout' = [op |-> "permuted", method |-> method, perm |-> perm,
                   res |-> PoolingLocalEdges(pin.nodes, Permute(pin.vals, perm),
                                             Permute(pin.index, perm), method)]
    /\ UNCHANGED <<pin, passVars, opsVars, acsfVars>>

\* gather an all-ones node feature onto the edges, sum-pool it back onto the
\* endpoint it was gathered from
ApplyDegree ==
    /\ pin # None /\ pout = None
    /\ \E slot \in {1, 2} :
          LET ones == GatherSlot(AllOnes(pin.nodes), pin.index, slot)
          IN  pout' = [op |-> "degree", slot |-> slot,
                       res |-> IF IsError(ones) THEN ones
                               ELSE PoolSlot(pin.nodes, ones, pin.index, slot, "sum"),
                       node_degree |-> NodeDegree(RowLengths(pin.nodes), pin.index)]
    /\ UNCHANGED <<pin, passVars, opsVars, acsfVars>>

(***************************************************************************)
(* The layers that combine two ragged inputs, called on any two inputs.    *)
(***************************************************************************)
\* row splits as a caller may hand them over: B+1 offsets from 0 upwards
SplitsUpTo(m) ==
    UNION {{sp \in [1..(B + 1) -> 0..m] :
               /\ sp[1] = 0
               /\ \A g \in 1..B : sp[g] <= sp[g + 1]} : B \in 1..MaxGraphs}

\* Ragged tensors of scalar rows, built without validation: the splits need
\* not end at the row count.
RaggedInputs ==
    {Ragged([p \in 1..n |-> <<RInt(p)>>], sp, 1) :
        n \in 0..OpsMaxRows, sp \in SplitsUpTo(OpsMaxRows)}

\* scalar rows as 1 x 1 matrices, for the matrices input of MatMulMessages
AsMatrices(x) ==
    Ragged([p \in 1..Len(x.values) |-> <<x.values[p]>>], x.row_splits, <<1, 1>>)

OpsInit ==
    /\ oin \in [x : RaggedInputs, y : RaggedInputs]
    /\ oout = None

OpsIdle == oin = None /\ oout = None

CallMapValues ==
    /\ oin # None /\ oout = None
    /\ \E validate \in BOOLEAN :
          oout' = [op |-> "map_values", validate |-> validate,
                   res |-> MapValues(oin.x, oin.y, validate)]
    /\ UNCHANGED <<oin, passVars, poolVars, acsfVars>>

CallMatMulMessages ==
    /\ oin # None /\ oout = None
    /\ \E validate \in BOOLEAN :
          oout' = [op |-> "MatMulMessages", validate |-> validate,
                   res |-> MatMulMessages(AsMatrices(oin.x), oin.y, validate)]
    /\ UNCHANGED <<oin, passVars, poolVars, acsfVars>>

CallGRUUpdate ==
    /\ oin # None /\ oout = None
    /\ \E validate \in BOOLEAN :
          oout' = [op |-> "GRUUpdate", validate |-> validate,
                   res |-> GRUUpdate(oin.x, oin.y, validate)]
    /\ UNCHANGED <<oin, passVars, poolVars, acsfVars>>

(***************************************************************************)
(* TrafoEdgeNetMessages called on edge features of any width.              *)
(***************************************************************************)
\* well-formed edge features of width w, distinct by position
EdgeFeatures ==
    {Ragged([p \in 1..n |-> [c \in 1..w |-> RInt(10 * p + c)]], sp, w) :
        n \in 0..OpsMaxRows, w \in 1..TrafoMaxWidth,
        sp \in {u \in SplitsUpTo(OpsMaxRows) : u[Len(u)] <= OpsMaxRows}}

TrafoInit ==
    /\ oin \in {t \in [x : EdgeFeatures,
                        target_shape : (1..TrafoMaxUnits) \X (1..TrafoMaxUnits),
                        validate : BOOLEAN] :
                    SplitsFit(t.x.row_splits, Len(t.x.values))}
    /\ oout = None

CallTrafoEdgeNetMessages ==
    /\ oin # None /\ oout = None
    /\ oout' = [op |-> "TrafoEdgeNetMessages",
                res |-> TrafoEdgeNetMessages(oin.x, oin.target_shape, oin.validate)]
    /\ UNCHANGED <<oin, passVars, poolVars, acsfVars>>

(***************************************************************************)
(* kgcnn/layers/base.py: GraphBaseLayer.__init__ and get_config            *)
(***************************************************************************)
\* dict.update: the keys of `new` added to or replaced in `config`
DictUpdate(config, new) ==
    [k \in DOMAIN config \cup DOMAIN new |->
        IF k \in DOMAIN new THEN new[k] ELSE config[k]]

\* __init__, lines 18-45: the flags are stored, then any node_indexing but
\* "sample" raises ValueError; _add_layer_config_to_self starts empty
GraphBaseLayerInit(kwargs, node_indexing, validate, is_sorted, has_unconnected) ==
    IF node_indexing # "sample"
    THEN Err("ValueError")
    ELSE [kwargs |-> kwargs,
          node_indexing |-> node_indexing,
          ragged_validate |-> validate,
          is_sorted |-> is_sorted,
          has_unconnected |-> has_unconnected,
          add_layer_config_to_self |-> <<>>]

\* a get_config that returns the base class's defaults for the flags
GetConfigDefaults(layer) ==
    DictUpdate(layer.kwargs,
               [node_indexing |-> "sample", ragged_validate |-> FALSE,
                is_sorted |-> FALSE, has_unconnected |-> TRUE])

\* the sub-layer loop of get_config, lines 57-63, entry by entry: for each
\* (key, names) the names found in the config of the sub-layer self.<key>,
\* when that attribute exists and is not None
RECURSIVE AddLayerConfig(_, _)
AddLayerConfig(config, entries) ==
    IF entries = <<>> THEN config
    ELSE LET e == Head(entries)
             found == IF e.has_attr /\ ~e.is_none
                      THEN [x \in {y \in e.names : y \in DOMAIN e.layer_conf} |->
                               e.layer_conf[x]]
                      ELSE <<>>
         IN  AddLayerConfig(DictUpdate(config, found), Tail(entries))

\* get_config, lines 47-64: the config of keras' Layer (name, trainable),
\* updated with the four flags, then with the listed sub-layer entries
GetConfig(layer) ==
    AddLayerConfig(
        DictUpdate(layer.kwargs,
                   [node_indexing |-> layer.node_indexing,
                    ragged_validate |-> layer.ragged_validate,
                    is_sorted |-> layer.is_sorted,
                    has_unconnected |-> layer.has_unconnected]),
        layer.add_layer_config_to_self)

\* what the layer classes of the repository list for get_config after the
\* base constructor: nothing, or (as a layer holding a sub-layer would) the
\* units of a sub-layer that exists, is None, or was never set
SubLayerEntries ==
    {<<>>} \cup
    {<<[names |-> {"units", "activation"}, has_attr |-> h, is_none |-> n,
        layer_conf |-> [units |-> u]]>> :
        h \in BOOLEAN, n \in BOOLEAN, u \in {"u1", "u2"}}

LayerInit ==
    /\ oin \in [kwargs : [name : {"layer_1", "layer_2"}, trainable : BOOLEAN],
                 node_indexing : {"sample", "batch", "disjoint"},
                 ragged_validate : BOOLEAN,
                 is_sorted : BOOLEAN,
                 has_unconnected : BOOLEAN]
    /\ oout = None

\* GraphBaseLayer(node_indexing=..., ...), then what a subclass constructor
\* lists in _add_layer_config_to_self
ConstructLayer ==
    /\ oin # None /\ oout = None
    /\ LET layer == GraphBaseLayerInit(oin.kwargs, oin.node_indexing, oin.ragged_validate,
                                       oin.is_sorted, oin.has_unconnected)
       IN  IF IsError(layer)
           THEN oout' = [op |-> "__init__", layer |-> layer, config |-> None]
           ELSE \E entries \in SubLayerEntries :
                   oout' = [op |-> "__init__",
                            layer |-> [layer EXCEPT !.add_layer_config_to_self = entries],
                            config |-> None]
    /\ UNCHANGED <<oin, passVars, poolVars, acsfVars>>

CallGetConfig ==
    /\ oout # None /\ oout.op = "__init__" /\ ~IsError(oout.layer)
    /\ oout' = [op |-> "get_config", layer |-> oout.layer, config |-> GetConfig(oout.layer)]
    /\ UNCHANGED <<oin, passVars, poolVars, acsfVars>>

(***************************************************************************)
(* kgcnn/layers/base.py: GraphBaseLayer.assert_ragged_input_rank           *)
(***************************************************************************)
\* tf.RaggedTensor.from_row_lengths(values, row_lengths), validate=True
FromRowLengths(vals, lens, d) ==
    IF SumSeq(lens) # Len(vals)
    THEN Err("InvalidArgument")
    ELSE Ragged(vals, SplitsOf(lens), d)

\* A dense tensor of shape (B), (B, N) or (B, N, 1): rows[b] is the sequence
\* of the elements of row b (one element for rank 1), each element held as a
\* vector of one entry.  The elements are distinct by position.
DenseTensor(rank, B, N) ==
    [kind |-> "dense", rank |-> rank,
     shape |-> IF rank = 1 THEN <<B>> ELSE IF rank = 2 THEN <<B, N>> ELSE <<B, N, 1>>,
     rows |-> [b \in 1..B |->
                 IF rank = 1 THEN <<(<<RInt(b)>>)>>
                 ELSE [n \in 1..N |-> <<RInt(10 * b + n)>>]]]

RaggedTensor(ragged_rank, t) == [kind |-> "ragged", ragged_rank |-> ragged_rank, t |-> t]

\* tf.reshape(x, concat([shape(x)[:1] * shape(x)[1:2], shape(x)[2:]])): the
\* two leading dimensions merged, row-major
ReshapeLeading(x) ==
    [p \in 1..(x.shape[1] * x.shape[2]) |->
        x.rows[((p - 1) \div x.shape[2]) + 1][((p - 1) % x.shape[2]) + 1]]

\* tf.repeat(tf.shape(x)[0], tf.shape(x)[1]): the arguments of the repeat
\* exchanged
CastDenseRepeatSwapped(x) ==
    RaggedTensor(1, FromRowLengths(ReshapeLeading(x),
                                   [b \in 1..x.shape[2] |-> x.shape[1]],
                                   IF x.rank = 2 THEN 0 ELSE 1))

\* lines 101-103: from_row_lengths(reshape(x), tf.repeat(shape(x)[1], shape(x)[0]))
CastDense(x) ==
    RaggedTensor(1, FromRowLengths(ReshapeLeading(x),
                                   [b \in 1..x.shape[1] |-> x.shape[2]],
                                   IF x.rank = 2 THEN 0 ELSE 1))

\* validate_or_cast(x), lines 87-105, inside assert_ragged_input_rank(inputs,
\* mask=None, ragged_rank).  The assertion of line 89 reads
\* inputs.ragged_rank, the attribute of the argument of the outer function:
\* a list has no such attribute.
ValidateOrCast(x, inputs, is_list, has_ragged_rank, ragged_rank) ==
    IF x.kind = "ragged"
    THEN IF has_ragged_rank
         THEN IF is_list THEN Err("AttributeError")
              ELSE IF inputs.ragged_rank # ragged_rank THEN Err("AssertionError")
              ELSE x
         ELSE x
    ELSE IF x.kind = "dense"
    THEN IF ~has_ragged_rank THEN Err("ValueError")
         ELSE IF ragged_rank # 1 THEN Err("ValueError")
         ELSE IF x.rank <= ragged_rank THEN Err("ValueError")
         ELSE CastDense(x)
    ELSE Err("ValueError")

\* assert_ragged_input_rank, lines 70-110: a list is cast item by item, the
\* first error ends the call
AssertRaggedInputRank(inputs, is_list, has_mask, has_ragged_rank, ragged_rank) ==
    IF has_mask THEN Err("ValueError")
    ELSE IF is_list
    THEN LET out == [k \in 1..Len(inputs) |->
                        ValidateOrCast(inputs[k], inputs, TRUE, has_ragged_rank, ragged_rank)]
         IN  IF \E k \in 1..Len(out) : IsError(out[k])
             THEN out[CHOOSE k \in 1..Len(out) :
                         IsError(out[k]) /\ \A j \in 1..(k - 1) : ~IsError(out[j])]
             ELSE [list |-> out]
    ELSE ValidateOrCast(inputs, inputs, FALSE, has_ragged_rank, ragged_rank)

\* the tensors handed to assert_ragged_input_rank: ragged tensors of
\* ragged_rank 1 or 2 (the outer partition is kept here), dense tensors of
\* rank 1 to 3, and an object that is no tensor
CastItems ==
    {RaggedTensor(r, Ragged([p \in 1..n |-> <<RInt(p)>>], sp, 1)) :
        r \in {1, 2}, n \in {CastMaxLen},
        sp \in {u \in SplitsUpTo(CastMaxLen) : SplitsFit(u, CastMaxLen)}}
    \cup {DenseTensor(1, B, 0) : B \in 0..CastMaxBatch}
    \cup {DenseTensor(rank, B, N) : rank \in {2, 3}, B \in 0..CastMaxBatch, N \in 0..CastMaxLen}
    \cup {[kind |-> "other"]}

CastInit ==
    /\ \E is_list \in BOOLEAN :
          oin \in [inputs : IF is_list
                            THEN {<<a>> : a \in CastItems}
                                 \cup {<<a, b>> : a \in CastItems, b \in CastItems}
                            ELSE CastItems,
                   is_list : {is_list},
                   has_mask : BOOLEAN,
                   has_ragged_rank : BOOLEAN,
                   ragged_rank : {1, 2}]
    /\ oout = None

CallAssertRaggedInputRank ==
    /\ oin # None /\ oout = None
    /\ oout' = [op |-> "assert_ragged_input_rank",
                res |-> AssertRaggedInputRank(oin.inputs, oin.is_list, oin.has_mask,
                                              oin.has_ragged_rank, oin.ragged_rank)]
    /\ UNCHANGED <<oin, passVars, poolVars, acsfVars>>

(***************************************************************************)
(* kgcnn/data/tudataset.py: GraphTUDataset.read_in_memory                  *)
(***************************************************************************)
SeqMax(s) == CHOOSE m \in {s[k] : k \in 1..Len(s)} : \A k \in 1..Len(s) : s[k] <= m
SeqMin(s) == CHOOSE m \in {s[k] : k \in 1..Len(s)} : \A k \in 1..Len(s) : m <= s[k]

\* np.concatenate([np.arange(x) for x in graphlen])
RECURSIVE ConcatArange(_)
ConcatArange(lens) ==
    IF lens = <<>> THEN <<>>
    ELSE [k \in 1..Head(lens) |-> k - 1] \o ConcatArange(Tail(lens))

\* line 106: both arrays are shifted when both start at 1
Shifts(g_a, g_n_id) ==
    SeqMin(g_n_id) = 1 /\ SeqMin([l \in 1..Len(g_a) |-> SeqMin(g_a[l])]) = 1

\* read_in_memory from the adjacency lines g_a and the graph indicator
\* g_n_id on (lines 99-168); an index outside an array is numpy's
\* IndexError.  edge_lines is not stored by the code: it names, for every
\* stored edge, the adjacency line it was read from.
ReadInMemory(g_a, g_n_id) ==
    LET num_graphs == SeqMax(g_n_id)
        shift == IF Shifts(g_a, g_n_id) THEN 1 ELSE 0
        a == [l \in 1..Len(g_a) |-> <<g_a[l][1] - shift, g_a[l][2] - shift>>]
        nid == [n \in 1..Len(g_n_id) |-> g_n_id[n] - shift]
        graphlen == [g \in 1..num_graphs |->
                        Cardinality({n \in 1..Len(nid) : nid[n] = g - 1})]
        graph_id_edge == [l \in 1..Len(a) |-> nid[a[l][1] + 1]]
        edgelen == [g \in 1..num_graphs |->
                       Cardinality({l \in 1..Len(a) : graph_id_edge[l] = g - 1})]
        node_index == ConcatArange(graphlen)
        edge_indices == [l \in 1..Len(a) |->
                            <<node_index[a[l][2] + 1], node_index[a[l][1] + 1]>>]
        splits == SplitsOf(edgelen)
        index == Ragged(edge_indices, splits, 2)
        degree == NodeDegree(graphlen, index)
    IN  IF \E n \in 1..Len(nid) : nid[n] >= num_graphs THEN Err("IndexError")
        ELSE IF \E l \in 1..Len(a) : a[l][1] >= Len(nid) THEN Err("IndexError")
        ELSE IF \E l \in 1..Len(a) : a[l][2] >= Len(node_index) THEN Err("IndexError")
        ELSE IF \E g \in 1..num_graphs : \E l \in (splits[g] + 1)..splits[g + 1] :
                    \E c \in 1..2 : edge_indices[l][c] >= graphlen[g]
        THEN Err("IndexError")
        ELSE [length |-> num_graphs,
              graphlen |-> graphlen,
              edge_indices |-> [g \in 1..num_graphs |->
                                   SubSeq(edge_indices, splits[g] + 1, splits[g + 1])],
              edge_lines |-> [g \in 1..num_graphs |->
                                 [k \in 1..edgelen[g] |-> splits[g] + k]],
              node_degree |-> degree.node_degree]

\* the indicator file of graphs with lens[g] nodes, ids starting at base
RECURSIVE ConcatGraphIds(_, _)
ConcatGraphIds(lens, base) ==
    IF lens = <<>> THEN <<>>
    ELSE [k \in 1..Head(lens) |-> base] \o ConcatGraphIds(Tail(lens), base + 1)

\* graph indicators of 1..TuMaxGraphs graphs of 1..TuMaxNodes nodes each, the
\* ids starting at base
TuIndicators(base) ==
    {ConcatGraphIds(lens, base) : lens \in UNION {[1..G -> 1..TuMaxNodes] : G \in 1..TuMaxGraphs}}

\* the files read: adjacency lines over the node ids 0..N, ids in either
\* file starting at 0 or at 1
TuInit ==
    /\ \E base \in {0, 1} : \E g_n_id \in TuIndicators(base) :
          \E L \in 1..TuMaxLines :
             ain \in [g_a : [1..L -> (0..Len(g_n_id)) \X (0..Len(g_n_id))],
                      g_n_id : {g_n_id}]
    /\ aout = None

CallReadInMemory ==
    /\ ain # None /\ aout = None
    /\ aout' = [op |-> "read_in_memory", self |-> ReadInMemory(ain.g_a, ain.g_n_id)]
    /\ UNCHANGED <<ain, passVars, poolVars, opsVars>>

(***************************************************************************)
(* kgcnn/layers/base.py: GraphBaseLayer.map_values with its kwargs         *)
(***************************************************************************)
\* the keyword arguments of a call: no axis, an int axis, or a list of axes
NoAxis == [kind |-> "none", v |-> <<>>]
IntAxis(a) == [kind |-> "int", v |-> <<a>>]
ListAxis(l) == [kind |-> "list", v |-> l]

\* lines 131-146: kwargs_values is the kwargs when there is no axis; with an
\* axis it is None unless the int axis is > 1, or every entry of the list
\* axis is > 1, and then the axis is lowered by one
KwargsValues(axis) ==
    IF axis.kind = "none" THEN [none |-> FALSE, axis |-> axis]
    ELSE IF \A k \in 1..Len(axis.v) : axis.v[k] > 1
         THEN [none |-> FALSE,
               axis |-> [axis EXCEPT !.v = [k \in 1..Len(axis.v) |-> axis.v[k] - 1]]]
         ELSE [none |-> TRUE, axis |-> NoAxis]

DoubleRows(vals) == [p \in 1..Len(vals) |-> [c \in 1..Len(vals[p]) |-> 2 * vals[p][c]]]

\* the functions handed to map_values, called on value tensors (sequences
\* of rows): "cast" and "split" take one tensor and return one tensor or a
\* list of two, "drop" returns its tensor without the last row; "add",
\* "each", "more" and "concat" take a list and return one
\* tensor, one tensor per input, one tensor more than inputs, or
\* tf.concat(inputs, axis)
FunValues(fun, vals, axis) ==
    CASE fun = "cast" -> [one |-> DoubleRows(vals[1])]
      [] fun = "split" -> [list |-> <<vals[1], DoubleRows(vals[1])>>]
      [] fun = "drop" -> [one |-> SubSeq(vals[1], 1, Len(vals[1]) - 1)]
      [] fun = "add" ->
            IF \E k \in 1..Len(vals) : Len(vals[k]) # Len(vals[1])
            THEN Err("InvalidArgument")
            ELSE [one |-> [p \in 1..Len(vals[1]) |->
                             <<SumSeq([k \in 1..Len(vals) |-> vals[k][p][1]])>>]]
      [] fun = "each" -> [list |-> [k \in 1..Len(vals) |-> DoubleRows(vals[k])]]
      [] fun = "more" -> [list |-> [k \in 1..(Len(vals) + 1) |-> DoubleRows(vals[1])]]
      [] fun = "concat" ->
            IF axis.kind # "int" THEN Err("TypeError")
            ELSE IF axis.v[1] = 0
            THEN [one |-> IF Len(vals) = 1 THEN vals[1] ELSE vals[1] \o vals[2]]
            ELSE IF axis.v[1] \in {1, -1}
            THEN IF \E k \in 1..Len(vals) : Len(vals[k]) # Len(vals[1])
                 THEN Err("InvalidArgument")
                 ELSE [one |-> [p \in 1..Len(vals[1]) |->
                                  IF Len(vals) = 1 THEN vals[1][p]
                                  ELSE vals[1][p] \o vals[2][p]]]
            ELSE Err("InvalidArgument")

\* the same functions called on the inputs themselves, ragged tensors of
\* ragged_rank 1: the runtime's ragged ops.  tf.concat of ragged tensors
\* along axis 1 joins the rows of each graph, along axis 0 the batches.
FunRagged(fun, items, axis) ==
    LET vals == [k \in 1..Len(items) |-> items[k].t.values]
        t1 == items[1].t
        same == \A k \in 1..Len(items) : items[k].t.row_splits = t1.row_splits
        out == FunValues(fun, vals, axis)
        wrap(v) == RaggedTensor(1, Ragged(v, t1.row_splits, t1.dim))
    IN  IF fun = "concat" /\ axis.kind = "int" /\ axis.v[1] \in {0, 1} /\ Len(items) = 2
        THEN LET t2 == items[2].t
             IN  IF axis.v[1] = 0
                 THEN [one |-> RaggedTensor(1,
                          Ragged(t1.values \o t2.values,
                                 t1.row_splits \o
                                     [g \in 1..NumGraphs(t2) |->
                                         Len(t1.values) + t2.row_splits[g + 1]],
                                 t1.dim))]
                 ELSE IF NumGraphs(t1) # NumGraphs(t2) THEN Err("InvalidArgument")
                 ELSE LET sp == [g \in 1..(NumGraphs(t1) + 1) |->
                                    t1.row_splits[g] + t2.row_splits[g]]
                          row(p) ==
                              LET g == CHOOSE h \in 1..NumGraphs(t1) :
                                           sp[h] <= p - 1 /\ p - 1 < sp[h + 1]
                                  o == p - 1 - sp[g]
                                  n1 == t1.row_splits[g + 1] - t1.row_splits[g]
                              IN  IF o < n1 THEN t1.values[t1.row_splits[g] + o + 1]
                                  ELSE t2.values[t2.row_splits[g] + (o - n1) + 1]
                      IN  [one |-> RaggedTensor(1,
                              Ragged([p \in 1..(Len(t1.values) + Len(t2.values)) |-> row(p)],
                                     sp, t1.dim))]
        ELSE IF fun \in {"add", "concat"} /\ ~same THEN Err("InvalidArgument")
        ELSE IF IsError(out) THEN out
        ELSE IF "one" \in DOMAIN out THEN [one |-> wrap(out.one)]
        ELSE [list |-> [k \in 1..Len(out.list) |-> wrap(out.list[k])]]

\* the value path taken for every list of ragged tensors of ragged_rank 1
TakesValuePathAnyValidate(kv, all_rank1, is_list, validate) == ~kv.none /\ all_rank1

\* lines 148-151 and 157-158: the value path needs kwargs_values, every
\* input ragged of ragged_rank 1 and, for a list, ragged_validate off
TakesValuePath(kv, all_rank1, is_list, validate) ==
    ~kv.none /\ all_rank1 /\ (is_list => ~validate)

\* every output built on the row splits of the first input
SplitsOfOutputFirst(items, is_list, k) == items[1].t.row_splits

\* lines 153-156 and 160-164: output k of a list input is built on
\* inputs[k].row_splits, every output of a single input on inputs.row_splits
SplitsOfOutput(items, is_list, k) == items[IF is_list THEN k ELSE 1].t.row_splits

\* map_values(fun, inputs, **kwargs), lines 131-171.  The value path: a list
\* of ragged tensors all of ragged_rank 1 with ragged_validate off, or one
\* ragged tensor of ragged_rank 1, and kwargs_values not None; fun is called
\* on the values and each output is built on the row splits of the input
\* (inputs[i] for output i of a list, inputs[0] for a single output).  Every
\* other call returns fun(inputs, **kwargs).  Kept with the result: the path
\* and the axis fun was called with.
MapValuesCall(fun, inputs, is_list, axis, validate) ==
    LET kv == KwargsValues(axis)
        items == IF is_list THEN inputs ELSE <<inputs>>
        all_ragged == \A k \in 1..Len(items) : items[k].kind = "ragged"
        all_rank1 == all_ragged /\ \A k \in 1..Len(items) : items[k].ragged_rank = 1
        out == FunValues(fun, [k \in 1..Len(items) |-> items[k].t.values], kv.axis)
        build(v, k) == LET r == FromRowSplits(v, SplitsOfOutput(items, is_list, k),
                                              items[1].t.dim, validate)
                       IN  IF IsError(r) THEN r ELSE RaggedTensor(1, r)
    IN  IF TakesValuePath(kv, all_rank1, is_list, validate)
        THEN [path |-> "values", axis |-> kv.axis,
              res |-> IF IsError(out) THEN out
                      ELSE IF "one" \in DOMAIN out THEN [one |-> build(out.one, 1)]
                      ELSE IF Len(out.list) > Len(items) /\ is_list THEN Err("IndexError")
                      ELSE [list |-> [k \in 1..Len(out.list) |-> build(out.list[k], k)]]]
        ELSE [path |-> "fallback", axis |-> axis,
              res |-> IF all_rank1 THEN FunRagged(fun, items, axis) ELSE [opaque |-> TRUE]]

\* the tensors handed to map_values: ragged tensors of ragged_rank 1 with
\* scalar rows, one of ragged_rank 2, one dense tensor
MapItems ==
    UNION {{RaggedTensor(1, Ragged([p \in 1..n |-> <<p>>], sp, 1)) :
               sp \in {u \in SplitsUpTo(MapMaxRows) : u[Len(u)] = n}} : n \in 0..MapMaxRows}
    \cup {RaggedTensor(2, Ragged(<<<<1>>>>, <<0, 1>>, 1)), DenseTensor(2, 1, 1)}

MapAxes ==
    {NoAxis} \cup {IntAxis(a) : a \in -1..3}
        \cup {ListAxis(<<2>>), ListAxis(<<1, 2>>), ListAxis(<<2, 3>>)}

MapInit ==
    /\ \E is_list \in BOOLEAN :
          oin \in [inputs : IF is_list
                            THEN {<<a>> : a \in MapItems}
                                 \cup {<<a, b>> : a \in MapItems, b \in MapItems}
                            ELSE MapItems,
                   is_list : {is_list},
                   fun : IF is_list THEN {"add", "each", "more", "concat"}
                         ELSE {"cast", "split", "drop"},
                   axis : MapAxes,
                   ragged_validate : BOOLEAN]
    /\ oout = None

CallMapValuesKwargs ==
    /\ oin # None /\ oout = None
    /\ oout' = [op |-> "map_values",
                call |-> MapValuesCall(oin.fun, oin.inputs, oin.is_list, oin.axis,
                                       oin.ragged_validate)]
    /\ UNCHANGED <<oin, passVars, poolVars, acsfVars>>

(***************************************************************************)
(* kgcnn/layers/conv/acsf_conv.py: ACSFRadial                              *)
(***************************************************************************)
\* ACSFRadial._max_atomic_number
MaxAtomicNumber == 96

\* np.iinfo(self.reverse_mapping.dtype).max, the fill value of the reverse
\* lookup table: 2^63 - 1 where numpy's "int" has 64 bits, 2^31 - 1 where it
\* has 32.  The 32-bit value stands for both here.
Sentinel == 2147483647

\* the atomic numbers that occur in the inputs
Elements == {1, 6, 8}

\* the table holding the 1-based position in element_mapping
ReverseMappingOneBased(element_mapping) ==
    [a \in 0..(MaxAtomicNumber - 1) |->
        IF \E k \in 1..Len(element_mapping) : element_mapping[k] = a
        THEN CHOOSE k \in 1..Len(element_mapping) :
                 /\ element_mapping[k] = a
                 /\ \A j \in (k + 1)..Len(element_mapping) : element_mapping[j] # a
        ELSE Sentinel]

\* __init__, lines 80-83: the table filled with the sentinel, then
\* reverse_mapping[pos] = i for i, pos in enumerate(element_mapping)
ReverseMapping(element_mapping) ==
    [a \in 0..(MaxAtomicNumber - 1) |->
        IF \E k \in 1..Len(element_mapping) : element_mapping[k] = a
        THEN (CHOOSE k \in 1..Len(element_mapping) :
                 /\ element_mapping[k] = a
                 /\ \A j \in (k + 1)..Len(element_mapping) : element_mapping[j] # a) - 1
        ELSE Sentinel]

\* __init__, lines 75-83, for eta_rs_rc of shape (N, m, 3) or (N, N, m, 3)
\* with N = len(element_mapping)
ACSFRadialInit(element_mapping, use_target_set, m, add_eps) ==
    [element_mapping |-> element_mapping,
     add_eps |-> add_eps,
     use_target_set |-> use_target_set,
     num_relations |-> Len(element_mapping),
     m |-> m,
     reverse_mapping |-> ReverseMapping(element_mapping)]

\* __init__, lines 75-83, for eta_rs_rc of any shape: the rank must be 3 or
\* 4, num_relations is shape[1] for rank 4 and shape[0] for rank 3, and the
\* length of element_mapping is not compared with it
ACSFRadialNew(shape, element_mapping, add_eps) ==
    IF Len(shape) \notin {3, 4} THEN Err("AssertionError")
    ELSE [ACSFRadialInit(element_mapping, Len(shape) = 4, shape[Len(shape) - 1], add_eps)
             EXCEPT !.num_relations = IF Len(shape) = 4 THEN shape[2] ELSE shape[1]]

\* tf.gather(table, indices, axis=0) on a table of n rows.  An index outside
\* 0..n-1 is an error on a CPU build; a GPU build stores 0 in the output.
TfGather(table, n, indices, zero, device) ==
    IF device = "CPU" /\ \E p \in 1..Len(indices) : indices[p] \notin 0..(n - 1)
    THEN Err("InvalidArgument")
    ELSE [values |-> [p \in 1..Len(indices) |->
                         IF indices[p] \in 0..(n - 1) THEN table[indices[p]] ELSE zero]]

\* _find_atomic_number_maps, line 118, on the flat atomic numbers
FindAtomicNumberMaps(layer, zs, device) ==
    TfGather(layer.reverse_mapping, MaxAtomicNumber, zs, 0, device)

\* the parameter rows of weight_eta_rs_rc, by relation index
ParamRow(qi, qj) == [eta_rs_rc |-> <<qi, qj>>]
ZeroRow == [zeros |-> TRUE]

\* _find_params_per_bond, lines 120-127: weight_eta_rs_rc gathered at zj_map,
\* and before that at zi_map when the parameters depend on the center atom
FindParamsPerBond(layer, zi_map, zj_map, device) ==
    LET N == layer.num_relations
    IN  IF layer.use_target_set
        THEN LET rows == TfGather([q \in 0..(N - 1) |-> q], N, zi_map, -1, device)
             IN  IF IsError(rows) THEN rows
                 ELSE IF device = "CPU" /\ \E p \in 1..Len(zj_map) : zj_map[p] \notin 0..(N - 1)
                      THEN Err("InvalidArgument")
                      ELSE [values |-> [p \in 1..Len(zj_map) |->
                                IF rows.values[p] = -1 \/ zj_map[p] \notin 0..(N - 1)
                                THEN ZeroRow
                                ELSE ParamRow(rows.values[p], zj_map[p])]]
        ELSE TfGather([q \in 0..(N - 1) |-> ParamRow(-1, q)], N, zj_map, ZeroRow, device)

\* the indices handed to tf.gather on weight_eta_rs_rc
ParamIndices(layer, zi_map, zj_map) ==
    {zj_map[p] : p \in 1..Len(zj_map)}
        \cup (IF layer.use_target_set THEN {zi_map[p] : p \in 1..Len(zi_map)} ELSE {})

\* RelationalPoolingLocalEdges(num_relations, "sum")([nodes, values, index,
\* relation]): per node one slice per relation, the sum (here: the set of
\* contributing tuples) of the values of the tuples that target the node
\* with that relation id; a relation id outside [0, num_relations) has no
\* entry in the relation table (UnmappedRelation).
RelationalPoolingLocalEdges(nodes, index, relation, N) ==
    IF \E p \in 1..Len(relation) : relation[p] \notin 0..(N - 1)
    THEN Err("UnmappedRelation")
    ELSE Ragged([t \in 1..Len(nodes.values) |->
                    [q \in 1..N |->
                        {p \in 1..Len(index.values) :
                            /\ FlatTarget(nodes, index, 1, p) = t
                            /\ relation[p] = q - 1}]],
                nodes.row_splits, N)

Scalars(x) == [p \in 1..Len(x.values) |-> x.values[p][1]]

\* the reshape of a pooled row of shape (N, m) taken relation by relation,
\* transposed
FlattenRelationsTransposed(pooled, N, m) ==
    Ragged([t \in 1..Len(pooled.values) |->
               [s \in 1..(N * m) |->
                   LET q == ((s - 1) % N) + 1
                       d == ((s - 1) \div N) + 1
                   IN  {<<e, d>> : e \in pooled.values[t][q]}]],
           pooled.row_splits, N * m)

\* _flatten_relations, lines 145-150, through map_values: the pooled rows of
\* shape (N, m) reshaped row-major to N * m slots, slot (q - 1) * m + d for
\* descriptor d of relation q - 1.  Descriptor d of a slice is the sum of
\* rep[e][d] over the contributing edges e, kept as the set of its terms
\* <<e, d>>; the empty set is the sum 0.
FlattenRelations(pooled, N, m) ==
    Ragged([t \in 1..Len(pooled.values) |->
               [s \in 1..(N * m) |->
                   LET q == ((s - 1) \div m) + 1
                       d == ((s - 1) % m) + 1
                   IN  {<<e, d>> : e \in pooled.values[t][q]}]],
           pooled.row_splits, N * m)

\* NodeDistanceEuclidean(add_eps)([a, b]): the distance of two points, kept
\* as its square and whether the epsilon is added
NodeDistanceEuclidean(a, b, add_eps) ==
    [sq |-> SumSeq([c \in 1..Len(a) |-> (a[c] - b[c]) * (a[c] - b[c])]), eps |-> add_eps]

\* the value of an edge computed from the neighbor's position alone
RadialRepOfPosition(xi, xj, params, add_eps) ==
    [r |-> NodeDistanceEuclidean(xj, <<0, 0, 0>>, add_eps), params |-> params]

\* lines 171-172 and 176-178: rij = layer_dist(layer_pos([xyz, eij])), and
\* rep = gij * fc, both factors functions of rij and of the edge's
\* parameters only; the product is kept as its arguments
RadialRep(xi, xj, params, add_eps) ==
    [r |-> NodeDistanceEuclidean(xi, xj, add_eps), params |-> params]

\* ACSFRadial.call, lines 168-180.  What the call did is kept with the
\* result: the indices it handed to the gather on the parameter tensor and
\* the relation ids it handed to the pooling.
ACSFRadialCall(layer, z, xyz, eij, device) ==
    LET zi == GatherSlot(z, eij, 1)
        zj == GatherSlot(z, eij, 2)
        zi_map == FindAtomicNumberMaps(layer, Scalars(zi), device)
        zj_map == FindAtomicNumberMaps(layer, Scalars(zj), device)
        failed == [status |-> "error", param_index |-> {}, relation_ids |-> {},
                   output |-> None]
    IN  IF IsError(zi) \/ IsError(zj) THEN failed
        ELSE IF IsError(zi_map) \/ IsError(zj_map) THEN failed
        ELSE LET params == FindParamsPerBond(layer, zi_map.values, zj_map.values, device)
                 used == ParamIndices(layer, zi_map.values, zj_map.values)
             IN  IF IsError(params)
                 THEN [failed EXCEPT !.param_index = used]
                 ELSE LET pooled == RelationalPoolingLocalEdges(xyz, eij, zj_map.values,
                                                                layer.num_relations)
                          rel == {zj_map.values[p] : p \in 1..Len(zj_map.values)}
                      IN  IF IsError(pooled)
                          THEN [failed EXCEPT !.param_index = used, !.relation_ids = rel]
                          ELSE [status |-> "ok", param_index |-> used,
                                relation_ids |-> rel,
                                output |-> [pooled |-> pooled, params |-> params.values,
                                            rep |-> [p \in 1..Len(eij.values) |->
                                                        RadialRep(
                                                            GatherSlot(xyz, eij, 1).values[p],
                                                            GatherSlot(xyz, eij, 2).values[p],
                                                            params.values[p], layer.add_eps)],
                                            flat |-> FlattenRelations(
                                                         pooled, layer.num_relations,
                                                         layer.m)]]

AcsfInit ==
    /\ \E B \in 1..MaxGraphs :
        \E lens \in [1..B -> 1..AcsfMaxAtoms], elens \in [1..B -> 0..AcsfMaxEdges] :
            /\ SumSeq(lens) <= AcsfMaxAtoms
            /\ SumSeq(elens) <= AcsfMaxEdges
            /\ \E zs \in [1..SumSeq(lens) -> Elements],
                  idx \in [1..SumSeq(elens) ->
                              (0..(AcsfMaxAtoms - 1)) \X (0..(AcsfMaxAtoms - 1))],
                  em \in {<<1, 6>>, <<6, 1>>},
                  uts \in BOOLEAN, device \in {"CPU", "GPU"}, m \in {AcsfMaxM} :
                   /\ ValidIndex(lens, elens, idx)
                   /\ ain = [layer |-> ACSFRadialInit(em, uts, m, FALSE),
                             z |-> Ragged([p \in 1..SumSeq(lens) |-> <<zs[p]>>],
                                          SplitsOf(lens), 1),
                             xyz |-> Ragged([p \in 1..SumSeq(lens) |-> <<p, p * p, 0>>],
                                            SplitsOf(lens), 3),
                             eij |-> Ragged(idx, SplitsOf(elens), 2),
                             device |-> device]
    /\ aout = None

AcsfIdle == ain = None /\ aout = None

CallACSFRadial ==
    /\ ain # None /\ aout = None
    /\ aout' = ACSFRadialCall(ain.layer, ain.z, ain.xyz, ain.eij, ain.device)
    /\ UNCHANGED <<ain, passVars, poolVars, opsVars>>

(***************************************************************************)
(* ACSFRadial called before and after a rigid motion of one graph.         *)
(***************************************************************************)
\* proper rotations with integer entries: the identity, quarter turns about
\* z and x, and the turn by a third about the diagonal
Rotations ==
    {<<<<1, 0, 0>>, <<0, 1, 0>>, <<0, 0, 1>>>>,
     <<<<0, -1, 0>>, <<1, 0, 0>>, <<0, 0, 1>>>>,
     <<<<1, 0, 0>>, <<0, 0, -1>>, <<0, 1, 0>>>>,
     <<<<0, 0, 1>>, <<1, 0, 0>>, <<0, 1, 0>>>>}

Translations == {<<0, 0, 0>>, <<1, -2, 3>>}

\* R v + t
RigidMotion(R, t, v) ==
    [c \in 1..3 |-> R[c][1] * v[1] + R[c][2] * v[2] + R[c][3] * v[3] + t[c]]

\* the coordinates with every atom of graph g moved
MoveGraph(xyz, g, R, t) ==
    [xyz EXCEPT !.values = [p \in 1..Len(xyz.values) |->
                               IF GraphOfRow(xyz, p) = g
                               THEN RigidMotion(R, t, xyz.values[p])
                               ELSE xyz.values[p]]]

MotionInit ==
    /\ \E B \in 1..MaxGraphs :
        \E lens \in [1..B -> 1..MotionMaxAtoms], elens \in [1..B -> 0..MotionMaxEdges] :
            /\ SumSeq(lens) <= MotionMaxAtoms
            /\ SumSeq(elens) <= MotionMaxEdges
            /\ \E zs \in [1..SumSeq(lens) -> {1, 6}],
                  idx \in [1..SumSeq(elens) ->
                              (0..(MotionMaxAtoms - 1)) \X (0..(MotionMaxAtoms - 1))],
                  uts \in BOOLEAN, add_eps \in BOOLEAN :
                   /\ ValidIndex(lens, elens, idx)
                   /\ ain = [layer |-> ACSFRadialInit(<<6, 1>>, uts, 1, add_eps),
                             z |-> Ragged([p \in 1..SumSeq(lens) |-> <<zs[p]>>],
                                          SplitsOf(lens), 1),
                             xyz |-> Ragged([p \in 1..SumSeq(lens) |-> <<p, p * p, 0>>],
                                            SplitsOf(lens), 3),
                             eij |-> Ragged(idx, SplitsOf(elens), 2),
                             device |-> "CPU"]
    /\ aout = None

\* the layer called on the inputs and on the inputs with graph g moved
CallACSFRadialMoved ==
    /\ ain # None /\ aout = None
    /\ \E g \in 1..NumGraphs(ain.xyz), R \in Rotations, t \in Translations :
          aout' = [op |-> "moved", g |-> g, R |-> R, t |-> t,
                   res |-> ACSFRadialCall(ain.layer, ain.z, ain.xyz, ain.eij, ain.device),
                   moved |-> ACSFRadialCall(ain.layer, ain.z, MoveGraph(ain.xyz, g, R, t),
                                            ain.eij, ain.device)]
    /\ UNCHANGED <<ain, passVars, poolVars, opsVars>>

(***************************************************************************)
(* kgcnn/layers/conv/acsf_conv.py: ACSFAngular                             *)
(***************************************************************************)
\* a < b in the lexicographic order of pairs
PairLess(a, b) == a[1] < b[1] \/ (a[1] = b[1] /\ a[2] < b[2])

\* __init__, lines 239-246, element_pair_mapping None: every pair of mapped
\* elements, each pair sorted, the pairs unique and in np.unique's
\* (lexicographic) order
AutoPairMapping(element_mapping) ==
    LET S == {<<IF element_mapping[a] <= element_mapping[b]
                THEN element_mapping[a] ELSE element_mapping[b],
                IF element_mapping[a] <= element_mapping[b]
                THEN element_mapping[b] ELSE element_mapping[a]>> :
                  a \in 1..Len(element_mapping), b \in 1..Len(element_mapping)}
    IN  [k \in 1..Cardinality(S) |->
            CHOOSE q \in S : Cardinality({r \in S : PairLess(r, q)}) = k - 1]

\* the pair order always kept: the mirrored entry is never written
ReversePairMappingOrdered(element_pair_mapping, keep_pair_order, a, b) ==
    LET W == {k \in 1..Len(element_pair_mapping) : element_pair_mapping[k] = <<a, b>>}
    IN  IF W = {} THEN Sentinel
        ELSE (CHOOSE k \in W : \A j \in W : j <= k) - 1

\* __init__, lines 257-262: the entry of reverse_pair_mapping at (a, b) after
\* the loop over element_pair_mapping: the index of the last pair that wrote
\* it, the sentinel when none did
ReversePairMapping(element_pair_mapping, keep_pair_order, a, b) ==
    LET W == {k \in 1..Len(element_pair_mapping) :
                 \/ element_pair_mapping[k] = <<a, b>>
                 \/ (~keep_pair_order /\ element_pair_mapping[k] = <<b, a>>)}
    IN  IF W = {} THEN Sentinel
        ELSE (CHOOSE k \in W : \A j \in W : j <= k) - 1

\* __init__, lines 228-262, for eta_zeta_lambda_rc of shape (R, m, 4) or
\* (N, R, m, 4) with R = len(element_pair_mapping)
ACSFAngularInit(element_mapping, element_pair_mapping, add_eps, keep_pair_order, use_target_set) ==
    [element_mapping |-> element_mapping,
     element_pair_mapping |-> element_pair_mapping,
     add_eps |-> add_eps,
     keep_pair_order |-> keep_pair_order,
     use_target_set |-> use_target_set,
     num_relations |-> Len(element_pair_mapping),
     reverse_mapping |-> ReverseMapping(element_mapping)]

\* __init__, lines 228-262, for eta_zeta_lambda_rc of any shape and
\* element_pair_mapping given or None: the rank must be 3 or 4,
\* num_relations is shape[1] for rank 4 and shape[0] for rank 3, and the
\* pair mapping must have num_relations rows (line 249)
ACSFAngularNew(shape, element_mapping, pair, add_eps, keep_pair_order) ==
    LET pm == IF pair.given THEN pair.pairs ELSE AutoPairMapping(element_mapping)
        R == IF Len(shape) = 4 THEN shape[2] ELSE shape[1]
    IN  IF Len(shape) \notin {3, 4} THEN Err("AssertionError")
        ELSE IF Len(pm) # R THEN Err("AssertionError")
        ELSE ACSFAngularInit(element_mapping, pm, add_eps, keep_pair_order, Len(shape) = 4)

\* the constructor arguments: element mappings with and without duplicates,
\* parameter tensors of rank 3 and 4 (and one of rank 2), pair mappings
\* given or left to the constructor
NewInit ==
    /\ \E cls \in {"ACSFRadial", "ACSFAngular"} :
          ain \in [cls : {cls},
                   element_mapping : UNION {[1..n -> Elements] : n \in 1..NewMaxElements},
                   shape : {<<r, 1, 3>> : r \in 1..NewMaxRelations}
                               \cup {<<r, r, 1, 3>> : r \in 1..NewMaxRelations}
                               \cup {<<1, 3>>},
                   pair : IF cls = "ACSFRadial" THEN {[given |-> FALSE, pairs |-> <<>>]}
                          ELSE {[given |-> FALSE, pairs |-> <<>>]}
                                   \cup {[given |-> TRUE, pairs |-> <<q>>] :
                                             q \in Elements \X Elements},
                   keep_pair_order : IF cls = "ACSFRadial" THEN {FALSE} ELSE BOOLEAN]
    /\ aout = None

Construct ==
    /\ ain # None /\ aout = None
    /\ aout' = [op |-> "__init__",
                layer |-> IF ain.cls = "ACSFRadial"
                          THEN ACSFRadialNew(ain.shape, ain.element_mapping, FALSE)
                          ELSE ACSFAngularNew(ain.shape, ain.element_mapping, ain.pair,
                                              FALSE, ain.keep_pair_order)]
    /\ UNCHANGED <<ain, passVars, poolVars, opsVars>>

\* _find_atomic_number_pair_maps, lines 307-309: reverse_pair_mapping gathered
\* at (zj, zk), row by row
FindAtomicNumberPairMaps(layer, zj, zk, device) ==
    IF device = "CPU" /\ \E p \in 1..Len(zj) :
          zj[p] \notin 0..(MaxAtomicNumber - 1) \/ zk[p] \notin 0..(MaxAtomicNumber - 1)
    THEN Err("InvalidArgument")
    ELSE [values |-> [p \in 1..Len(zj) |->
             IF zj[p] \in 0..(MaxAtomicNumber - 1) /\ zk[p] \in 0..(MaxAtomicNumber - 1)
             THEN ReversePairMapping(layer.element_pair_mapping, layer.keep_pair_order,
                                     zj[p], zk[p])
             ELSE 0]]

\* the parameter rows of weight_eta_zeta_lambda_rc, by index (-1: no target
\* axis); the row tf.gather stores for an index out of range
AngularParamRow(qi, qjk) == <<qi, qjk>>
AngularZeroRow == <<-2, -2>>

\* ACSFAngular._find_params_per_bond, lines 311-318
FindParamsPerTriple(layer, zi_map, zjk_map, device) ==
    LET R == layer.num_relations
        N == Len(layer.element_mapping)
        bad(p) == \/ zjk_map[p] \notin 0..(R - 1)
                  \/ (layer.use_target_set /\ zi_map[p] \notin 0..(N - 1))
    IN  IF device = "CPU" /\ \E p \in 1..Len(zjk_map) : bad(p)
        THEN Err("InvalidArgument")
        ELSE [values |-> [p \in 1..Len(zjk_map) |->
                 IF bad(p) THEN AngularZeroRow
                 ELSE AngularParamRow(IF layer.use_target_set THEN zi_map[p] ELSE -1,
                                      zjk_map[p])]]

\* the distance is exactly zero
IsZeroDistance(r) == r.sq = 0 /\ ~r.eps

\* the factors of a product or the terms of a sum, with their multiplicity
BagOfSeq(seq) ==
    [v \in {seq[p] : p \in 1..Len(seq)} |-> Cardinality({p \in 1..Len(seq) : seq[p] = v})]

\* _compute_pow_cos_angle_, lines 337-346: cos_theta is the sum of vij * vik
\* divided by rij and by rik; a zero divisor makes it NaN or infinite
ComputePowCosAngle(xi, xj, xk, rij, rik, params) ==
    [dot |-> SumSeq([c \in 1..Len(xi) |-> (xi[c] - xj[c]) * (xi[c] - xk[c])]),
     divisors |-> BagOfSeq(<<rij, rik>>),
     params |-> params,
     division_by_zero |-> IsZeroDistance(rij) \/ IsZeroDistance(rik)]

\* the product lazy_mult([pow_cos_theta, gij, gik, gjk, fij, fik, fjk]) of one
\* triple, lines 376-389: the cutoff and Gaussian factors are functions of a
\* distance and of the triple's parameters, the product is kept as its
\* factors
TripleValue(xi, xj, xk, params, add_eps) ==
    LET rij == NodeDistanceEuclidean(xi, xj, add_eps)
        rik == NodeDistanceEuclidean(xi, xk, add_eps)
        rjk == NodeDistanceEuclidean(xj, xk, add_eps)
    IN  [pow_cos_theta |-> ComputePowCosAngle(xi, xj, xk, rij, rik, params),
         g |-> BagOfSeq(<<rij, rik, rjk>>),
         fc |-> BagOfSeq(<<rij, rik, rjk>>),
         params |-> params]

\* RelationalPoolingLocalEdges(num_relations, "sum") on per-tuple values that
\* are kept as terms: per node and relation the terms of the tuples that
\* target the node (first index) with that relation id
RelationalPoolingTerms(nodes, vals, index, relation, N) ==
    IF \E p \in 1..Len(relation) : relation[p] \notin 0..(N - 1)
    THEN Err("UnmappedRelation")
    ELSE Ragged([t \in 1..Len(nodes.values) |->
                    [q \in 1..N |->
                        LET P == {p \in 1..Len(index.values) :
                                     /\ FlatTarget(nodes, index, 1, p) = t
                                     /\ relation[p] = q - 1}
                        IN  [v \in {vals[p] : p \in P} |->
                                Cardinality({p \in P : vals[p] = v})]]],
                nodes.row_splits, N)

\* ACSFAngular.call, lines 371-392
ACSFAngularCall(layer, z, xyz, ijk, device) ==
    LET zi == GatherSlot(z, ijk, 1)
        zj == GatherSlot(z, ijk, 2)
        zk == GatherSlot(z, ijk, 3)
        xi == GatherSlot(xyz, ijk, 1)
        xj == GatherSlot(xyz, ijk, 2)
        xk == GatherSlot(xyz, ijk, 3)
        zi_map == FindAtomicNumberMaps(layer, Scalars(zi), device)
        zjk_map == FindAtomicNumberPairMaps(layer, Scalars(zj), Scalars(zk), device)
        failed == [status |-> "error", relation_ids |-> <<>>, params |-> <<>>,
                   values |-> <<>>, output |-> None]
    IN  IF IsError(zi) \/ IsError(zj) \/ IsError(zk) THEN failed
        ELSE IF IsError(zi_map) \/ IsError(zjk_map) THEN failed
        ELSE LET params == FindParamsPerTriple(layer, zi_map.values, zjk_map.values, device)
             IN  IF IsError(params)
                 THEN [failed EXCEPT !.relation_ids = zjk_map.values]
                 ELSE LET rep == [p \in 1..Len(ijk.values) |->
                                     TripleValue(xi.values[p], xj.values[p], xk.values[p],
                                                 params.values[p], layer.add_eps)]
                          pooled == RelationalPoolingTerms(z, rep, ijk, zjk_map.values,
                                                           layer.num_relations)
                      IN  [status |-> IF IsError(pooled) THEN "error" ELSE "ok",
                           relation_ids |-> zjk_map.values,
                           params |-> params.values,
                           values |-> rep,
                           output |-> IF IsError(pooled) THEN None ELSE pooled]

\* row p of the triples with its two neighbor indices exchanged
SwapNeighbors(ijk, p) ==
    [ijk EXCEPT !.values[p] = <<ijk.values[p][1], ijk.values[p][3], ijk.values[p][2]>>]

\* the coordinates of the atom at position a of a graph
PointOf(a) == <<a, a * a, 0>>

AngularInit ==
    /\ \E B \in 1..MaxGraphs :
        \E lens \in [1..B -> 1..AngMaxAtoms], tlens \in [1..B -> 0..AngMaxTriples] :
            /\ SumSeq(lens) <= AngMaxAtoms
            /\ SumSeq(tlens) <= AngMaxTriples
            /\ \E zs \in [1..SumSeq(lens) -> Elements],
                  idx \in [1..SumSeq(tlens) ->
                              (0..(AngMaxAtoms - 1)) \X (0..(AngMaxAtoms - 1))
                                  \X (0..(AngMaxAtoms - 1))],
                  pm \in {<<>>, <<<<6, 1>>, <<1, 1>>>>},
                  add_eps \in BOOLEAN, keep_pair_order \in BOOLEAN,
                  use_target_set \in BOOLEAN, device \in {"CPU", "GPU"} :
                   /\ \A p \in 1..Len(idx) :
                         LET g == CHOOSE h \in 1..B :
                                      SplitsOf(tlens)[h] < p /\ p <= SplitsOf(tlens)[h + 1]
                         IN  \A c \in 1..3 : idx[p][c] < lens[g]
                   /\ ain = [layer |-> ACSFAngularInit(
                                          <<1, 6>>,
                                          IF pm = <<>> THEN AutoPairMapping(<<1, 6>>) ELSE pm,
                                          add_eps, keep_pair_order, use_target_set),
                             z |-> Ragged([p \in 1..SumSeq(lens) |-> <<zs[p]>>],
                                          SplitsOf(lens), 1),
                             xyz |-> Ragged([p \in 1..SumSeq(lens) |->
                                               PointOf(p - 1 - SplitsOf(lens)[
                                                   CHOOSE h \in 1..B :
                                                       SplitsOf(lens)[h] < p
                                                           /\ p <= SplitsOf(lens)[h + 1]])],
                                            SplitsOf(lens), 3),
                             ijk |-> Ragged(idx, SplitsOf(tlens), 3),
                             device |-> device]
    /\ aout = None

CallACSFAngular ==
    /\ ain # None /\ aout = None
    /\ aout' = [op |-> "call", p |-> 0,
                res |-> ACSFAngularCall(ain.layer, ain.z, ain.xyz, ain.ijk, ain.device)]
    /\ UNCHANGED <<ain, passVars, poolVars, opsVars>>

\* the call on the triples with the neighbors of triple p exchanged
CallACSFAngularSwapped ==
    /\ ain # None /\ aout = None
    /\ \E p \in 1..Len(ain.ijk.values) :
          aout' = [op |-> "swapped", p |-> p,
                   res |-> ACSFAngularCall(ain.layer, ain.z, ain.xyz,
                                           SwapNeighbors(ain.ijk, p), ain.device)]
    /\ UNCHANGED <<ain, passVars, poolVars, opsVars>>

(***************************************************************************)
(* kgcnn/layers/conv/acsf_conv.py: _compute_fc                             *)
(***************************************************************************)
RLeq(p, q) == p[1] * q[2] <= q[1] * p[2]
RNeg(p) == <<-p[1], p[2]>>
RDiv(p, q) == IF q[1] > 0 THEN Norm(p[1] * q[2], p[2] * q[1])
              ELSE Norm(-(p[1] * q[2]), -(p[2] * q[1]))

\* tf.clip_by_value(t, clip_value_min, clip_value_max):
\* maximum(minimum(t, clip_value_max), clip_value_min)
ClipByValue(t, lo, hi) ==
    LET m == IF RLeq(t, hi) THEN t ELSE hi
    IN  IF RLeq(lo, m) THEN m ELSE lo

\* cos(pi * q) for a rational q: the angle reduced to [0, 1] by the symmetry
\* and the period of the cosine; the exact value where it is rational,
\* otherwise the reduced angle stands for the value
CosPi(q) ==
    LET a0 == <<Abs(q[1]) % (2 * q[2]), q[2]>>
        a1 == IF RLeq(a0, ROne) THEN a0 ELSE RAdd(RInt(2), RNeg(a0))
        a == Norm(a1[1], a1[2])
    IN  IF a = RZero THEN [exact |-> TRUE, val |-> ROne, angle |-> RZero]
        ELSE IF a = ROne THEN [exact |-> TRUE, val |-> RInt(-1), angle |-> RZero]
        ELSE IF a = <<1, 2>> THEN [exact |-> TRUE, val |-> RZero, angle |-> RZero]
        ELSE IF a = <<1, 3>> THEN [exact |-> TRUE, val |-> <<1, 2>>, angle |-> RZero]
        ELSE IF a = <<2, 3>> THEN [exact |-> TRUE, val |-> <<-1, 2>>, angle |-> RZero]
        ELSE [exact |-> FALSE, val |-> RZero, angle |-> a]

\* (cos(pi * q) + 1.0) * 0.5
HalfCosPlusOne(q) ==
    LET c == CosPi(q)
    IN  IF c.exact THEN [c EXCEPT !.val = RMul(RAdd(c.val, ROne), <<1, 2>>)] ELSE c

\* the cutoff weight without the clip of the distance
ComputeFcUnclipped(rij, params, cutoff_index) ==
    [p \in 1..Len(rij) |->
        [k \in 1..Len(params[p]) |->
            HalfCosPlusOne(RDiv(rij[p], params[p][k][cutoff_index + 1]))]]

\* _compute_fc([rij, params]), lines 130-136 (radial, cutoff = params[..., 2])
\* and 321-327 (angular, cutoff = params[..., 3]): rij of shape (M, 1)
\* broadcast to the (M, m) cutoffs, clipped to [-cutoff, cutoff], then
\* (cos(fc * pi / cutoff) + 1) * 0.5
ComputeFc(rij, params, cutoff_index) ==
    [p \in 1..Len(rij) |->
        [k \in 1..Len(params[p]) |->
            LET cutoff == params[p][k][cutoff_index + 1]
                fc == ClipByValue(rij[p], RNeg(cutoff), cutoff)
            IN  HalfCosPlusOne(RDiv(fc, cutoff))]]

\* the cutoff radii of the parameter sets
Cutoffs == {RInt(1), RInt(2)}

\* one parameter set: (eta, rs, rc) for ACSFRadial, (eta, zeta, lambda, rc)
\* for ACSFAngular
ParamSet(variant, rc) ==
    IF variant = "radial" THEN <<RInt(7), RInt(5), rc>>
    ELSE <<RInt(7), RInt(5), RInt(-1), rc>>

FcInit ==
    /\ \E M \in 0..FcMaxEdges, m \in 1..FcMaxSets, variant \in {"radial", "angular"} :
          \E r \in [1..M -> 0..FcMaxDist], rc \in [1..M -> [1..m -> Cutoffs]] :
              ain = [variant |-> variant,
                     rij |-> [p \in 1..M |-> Norm(r[p], 2)],
                     params |-> [p \in 1..M |->
                                    [k \in 1..m |-> ParamSet(variant, rc[p][k])]]]
    /\ aout = None

CallComputeFcRadial ==
    /\ ain # None /\ aout = None
    /\ ain.variant = "radial"
    /\ aout' = [op |-> "_compute_fc", fc |-> ComputeFc(ain.rij, ain.params, 2)]
    /\ UNCHANGED <<ain, passVars, poolVars, opsVars>>

CallComputeFcAngular ==
    /\ ain # None /\ aout = None
    /\ ain.variant = "angular"
    /\ aout' = [op |-> "_compute_fc", fc |-> ComputeFc(ain.rij, ain.params, 3)]
    /\ UNCHANGED <<ain, passVars, poolVars, opsVars>>

Init == PassInit /\ PoolIdle /\ OpsIdle /\ AcsfIdle

Next == Embed \/ Gather \/ MatMul \/ Pool \/ Update \/ OutputHead

Spec == Init /\ [][Next]_vars

InitPool == PoolInit /\ PassIdle /\ OpsIdle /\ AcsfIdle

NextPool ==
    ApplyGather \/ ApplyPool \/ ApplyPoolPerGraph \/ ApplyPoolPermuted \/ ApplyDegree

SpecPool == InitPool /\ [][NextPool]_vars

InitOps == OpsInit /\ PassIdle /\ PoolIdle /\ AcsfIdle

NextOps == CallMapValues \/ CallMatMulMessages \/ CallGRUUpdate

SpecOps == InitOps /\ [][NextOps]_vars

InitTrafo == TrafoInit /\ PassIdle /\ PoolIdle /\ AcsfIdle

NextTrafo == CallTrafoEdgeNetMessages

SpecTrafo == InitTrafo /\ [][NextTrafo]_vars

InitLayer == LayerInit /\ PassIdle /\ PoolIdle /\ AcsfIdle

NextLayer == ConstructLayer \/ CallGetConfig

SpecLayer == InitLayer /\ [][NextLayer]_vars

InitNew == NewInit /\ PassIdle /\ PoolIdle /\ OpsIdle

NextNew == Construct

SpecNew == InitNew /\ [][NextNew]_vars

InitTu == TuInit /\ PassIdle /\ PoolIdle /\ OpsIdle

NextTu == CallReadInMemory

SpecTu == InitTu /\ [][NextTu]_vars

InitMap == MapInit /\ PassIdle /\ PoolIdle /\ AcsfIdle

NextMap == CallMapValuesKwargs

SpecMap == InitMap /\ [][NextMap]_vars

InitCast == CastInit /\ PassIdle /\ PoolIdle /\ AcsfIdle

NextCast == CallAssertRaggedInputRank

SpecCast == InitCast /\ [][NextCast]_vars

InitAngular == AngularInit /\ PassIdle /\ PoolIdle /\ OpsIdle

NextAngular == CallACSFAngular \/ CallACSFAngularSwapped

SpecAngular == InitAngular /\ [][NextAngular]_vars

InitFc == FcInit /\ PassIdle /\ PoolIdle /\ OpsIdle

NextFc == CallComputeFcRadial \/ CallComputeFcAngular

SpecFc == InitFc /\ [][NextFc]_vars

InitMotion == MotionInit /\ PassIdle /\ PoolIdle /\ OpsIdle

NextMotion == CallACSFRadialMoved

SpecMotion == InitMotion /\ [][NextMotion]_vars

InitAcsf == AcsfInit /\ PassIdle /\ PoolIdle /\ OpsIdle

NextAcsf == CallACSFRadial

SpecAcsf == InitAcsf /\ [][NextAcsf]_vars

\* the layer call `op` has been made and has returned
Called(op) == oin # None /\ oout # None /\ oout.op = op

(***************************************************************************)
(* Properties of the forward pass (Spec).                                  *)
(***************************************************************************)
Projection == DenseNodes(generate_embedding(env.node_input), NodeDim)

LoopBody == <<"gather", "matmul", "pool", "update">>

\* C1: a forward pass makes exactly `depth` message-passing iterations and
\* then ends, whatever the batch: it never makes more than depth iterations,
\* it is never stuck or failed before the output head, at the end the loop
\* body has run depth times, and with depth = 0 the head gets the projection
\* of the node attributes.  (At "start" Embed can step, at "loop" Gather or
\* OutputHead, at "matmul", "pool" and "update" the action of that name: a
\* pass not yet done is at one of these positions.)
C1_ExactlyDepthIterations ==
    /\ pc \in {"start", "loop", "matmul", "pool", "update", "done"}
    /\ Len(steps) <= 4 * cfg.depth
    /\ i <= cfg.depth
    /\ pc = "done" =>
          /\ i = cfg.depth
          /\ Len(steps) = 4 * cfg.depth
          /\ Len(hist) = cfg.depth + 1
          /\ head_in = hist[cfg.depth + 1]
          /\ cfg.depth = 0 => head_in = Projection

C1_Witness ==
    /\ pc = "done"
    /\ cfg.depth = MaxDepth
    /\ NumGraphs(env.node_input) = MaxGraphs
    /\ Len(env.edi.values) > 0
    /\ head_in # Projection

\* C2: the iterations are sequential: the layer calls occur in the order
\* gather, matmul, pool, update, over and over; the state n is always the
\* one the last update wrote (hist[k + 1] after k updates); and the messages
\* a gather returns are gathered from exactly that state.
C2_SequentialIterations ==
    /\ \A k \in 1..Len(steps) : steps[k] = LoopBody[((k - 1) % 4) + 1]
    /\ pc \notin {"start", "error"} =>
          /\ Len(hist) = i + 1
          /\ env.n = hist[i + 1]
    /\ pc = "matmul" => env.eu = GatherNodesOutgoing(hist[i + 1], env.edi)

C2_Witness ==
    /\ pc = "matmul"
    /\ i = 1
    /\ hist[2] # hist[1]
    /\ env.eu # GatherNodesOutgoing(hist[1], env.edi)

\* C3: after every iteration the node state has the partition of the input
\* node batch (same row splits, so the same number of graphs and the same
\* node counts), one row per input row, and the feature width node_dim.
C3_NodePartitionPreserved ==
    pc \notin {"start", "error"} =>
        \A k \in 1..Len(hist) :
            /\ hist[k].row_splits = env.node_input.row_splits
            /\ RowLengths(hist[k]) = RowLengths(env.node_input)
            /\ Len(hist[k].values) = Len(env.node_input.values)
            /\ hist[k].dim = NodeDim
            /\ WellFormed(hist[k])

C3_Witness ==
    /\ pc = "loop"
    /\ i = 2
    /\ NumGraphs(env.n) = 2
    /\ RowLengths(env.n)[1] # RowLengths(env.n)[2]
    /\ hist[3] # hist[2]

(***************************************************************************)
(* Properties of gather and pool (SpecPool).                               *)
(***************************************************************************)
Applied(op) == pin # None /\ pout # None /\ pout.op = op

\* position of flat row t inside its graph, from 0
LocalPos(x, t) == t - x.row_splits[GraphOfRow(x, t)] - 1

\* the tuples of graph g whose `slot` holds the graph-local position k
Contributors(index, g, k, slot) ==
    {p \in 1..Len(index.values) : GraphOfRow(index, p) = g /\ index.values[p][slot] = k}

\* every tuple references, at `slot`, a node of its own graph
InRange(nodes, index, slot) ==
    \A p \in 1..Len(index.values) :
        index.values[p][slot] < RowLengths(nodes)[GraphOfRow(index, p)]

RECURSIVE SumOver(_, _)
SumOver(vals, P) ==
    IF P = {} THEN RZero
    ELSE LET p == CHOOSE q \in P : TRUE
         IN  RAdd(vals.values[p][1], SumOver(vals, P \ {p}))

\* C4: pooling never mixes graphs: pooling every graph as a batch of its own
\* gives, graph by graph, the rows that pooling the whole batch gives (and
\* one fails exactly when the other does).
C4_PoolingNeverMixesGraphs ==
    Applied("pergraph") =>
        LET joint == PoolingLocalEdges(pin.nodes, pin.vals, pin.index, pout.method)
        IN  IF IsError(joint)
            THEN \E g \in 1..NumGraphs(pin.nodes) : IsError(pout.res[g])
            ELSE \A g \in 1..NumGraphs(pin.nodes) :
                    /\ ~IsError(pout.res[g])
                    /\ pout.res[g].values = Slice(joint, g).values

C4_Witness ==
    /\ Applied("pergraph")
    /\ NumGraphs(pin.nodes) = 2
    /\ RowLengths(pin.index) = <<1, 1>>
    /\ ~IsError(pout.res[1]) /\ ~IsError(pout.res[2])
    /\ \E k \in 1..Len(pout.res[2].values) : pout.res[2].values[k] # <<RZero>>

\* C19: a graph with zero edges yields zero gathered rows for that graph
\* without error, the other graphs of the batch are unaffected (their rows
\* are those of the graph gathered or pooled on its own), and pooling leaves
\* every node of that graph at 0.
C19_GraphWithoutEdges ==
    \A g \in 1..(IF pin = None THEN 0 ELSE NumGraphs(pin.nodes)) :
        RowLengths(pin.index)[g] = 0 =>
            /\ (Applied("gather") /\ InRange(pin.nodes, pin.index, 2)) =>
                  /\ ~IsError(pout.res)
                  /\ RowLengths(pout.res)[g] = 0
                  /\ \A h \in 1..NumGraphs(pin.nodes) :
                        Slice(pout.res, h) =
                            GatherNodesOutgoing(Slice(pin.nodes, h), Slice(pin.index, h))
            /\ (Applied("pool") /\ InRange(pin.nodes, pin.index, 1)) =>
                  /\ ~IsError(pout.res)
                  /\ \A t \in 1..Len(pin.nodes.values) :
                        GraphOfRow(pin.nodes, t) = g => pout.res.values[t] = <<RZero>>
                  /\ \A h \in 1..NumGraphs(pin.nodes) :
                        Slice(pout.res, h) =
                            PoolingLocalEdges(Slice(pin.nodes, h), Slice(pin.vals, h),
                                              Slice(pin.index, h), pout.method)

\* a batch whose first graph has two nodes and no edge and whose second
\* graph has an edge: the pooled rows of the first graph are 0, a row of the
\* second is not
C19_Witness ==
    /\ Applied("pool")
    /\ RowLengths(pin.nodes) = <<2, 1>>
    /\ RowLengths(pin.index) = <<0, 1>>
    /\ ~IsError(pout.res)
    /\ pout.res.values[1] = <<RZero>> /\ pout.res.values[2] = <<RZero>>
    /\ pout.res.values[3] # <<RZero>>

\* C7: a gather whose tuple references a position that is not below the node
\* count of its own graph fails with IndexOutOfRange; otherwise every
\* gathered row is the row of the referenced node of the tuple's own graph.
C7_GatherIndexOutOfRange ==
    Applied("gather") =>
        IF ~InRange(pin.nodes, pin.index, 2)
        THEN pout.res = Err("IndexOutOfRange")
        ELSE /\ ~IsError(pout.res)
             /\ pout.res.row_splits = pin.index.row_splits
             /\ \A p \in 1..Len(pin.index.values) :
                    pout.res.values[p] =
                        Slice(pin.nodes, GraphOfRow(pin.index, p)).values[pin.index.values[p][2] + 1]

\* the out-of-range position of a tuple of graph 1 is a row of graph 2 in the
\* flat node array
C7_Witness ==
    /\ Applied("gather")
    /\ NumGraphs(pin.nodes) = 2
    /\ \E p \in 1..Len(pin.index.values) :
          /\ GraphOfRow(pin.index, p) = 1
          /\ pin.index.values[p][2] = RowLengths(pin.nodes)[1]
    /\ IsError(pout.res)

\* C8: mean pooling gives exactly 0 for a node no edge targets, and for any
\* other node the sum of the values of the edges that target it divided by
\* the number of those edges.
C8_MeanPooling ==
    (Applied("pool") /\ pout.method = "mean" /\ ~IsError(pout.res)) =>
        \A t \in 1..Len(pin.nodes.values) :
            LET P == Contributors(pin.index, GraphOfRow(pin.nodes, t),
                                  LocalPos(pin.nodes, t), 1)
            IN  pout.res.values[t] =
                    IF P = {} THEN <<RZero>>
                    ELSE <<RDivN(SumOver(pin.vals, P), Cardinality(P))>>

\* one node is the mean of two edges (3/2), another node of that graph has
\* no edge, a third edge-less case is covered by the zero row
C8_Witness ==
    /\ Applied("pool") /\ pout.method = "mean" /\ ~IsError(pout.res)
    /\ \E t, u \in 1..Len(pin.nodes.values) :
          /\ GraphOfRow(pin.nodes, t) = GraphOfRow(pin.nodes, u)
          /\ pout.res.values[t] = <<(<<3, 2>>)>>
          /\ pout.res.values[u] = <<RZero>>

\* C9: the pooled rows do not depend on the order of the edges of a graph:
\* pooling the batch with the edges (index rows and value rows together)
\* permuted inside their graphs gives the result of pooling the batch as is.
C9_EdgeOrderIndependence ==
    Applied("permuted") =>
        pout.res = PoolingLocalEdges(pin.nodes, pin.vals, pin.index, pout.method)

C9_Witness ==
    /\ Applied("permuted") /\ ~IsError(pout.res)
    /\ Len(pin.index.values) = 2
    /\ pout.perm = <<2, 1>>
    /\ pin.index.values[1][1] = pin.index.values[2][1]
    /\ pin.index.values[1] # pin.index.values[2]

\* C10: gathering an all-ones feature onto the edges from an endpoint and
\* sum-pooling it back onto that endpoint gives every node the number of
\* edges of its graph that have it as that endpoint, 0 when there is none;
\* on the first index it is the node_degree the TU dataset reader stores.
C10_DegreeRoundTrip ==
    Applied("degree") =>
        IF ~InRange(pin.nodes, pin.index, pout.slot)
        THEN IsError(pout.res)
        ELSE /\ ~IsError(pout.res)
             /\ \A t \in 1..Len(pin.nodes.values) :
                    pout.res.values[t] =
                        <<RInt(Cardinality(Contributors(pin.index, GraphOfRow(pin.nodes, t),
                                                        LocalPos(pin.nodes, t), pout.slot)))>>
             /\ pout.slot = 1 =>
                    /\ ~IsError(pout.node_degree)
                    /\ \A g \in 1..NumGraphs(pin.nodes) :
                           pout.node_degree.node_degree[g] =
                               [k \in 1..RowLengths(pin.nodes)[g] |->
                                   Slice(pout.res, g).values[k][1][1]]

\* the source endpoint (the outgoing node, slot 2): a node with two outgoing
\* edges beside a node with none
C10_Witness ==
    /\ Applied("degree") /\ pout.slot = 2 /\ ~IsError(pout.res)
    /\ \E t, u \in 1..Len(pin.nodes.values) :
          /\ pout.res.values[t] = <<RInt(2)>>
          /\ pout.res.values[u] = <<RZero>>

(***************************************************************************)
(* Properties of assert_ragged_input_rank (SpecCast).                      *)
(***************************************************************************)
\* the tensors a call returned: the list's elements, or the single tensor
Returned ==
    IF IsError(oout.res) THEN {}
    ELSE IF oin.is_list THEN {oout.res.list[k] : k \in 1..Len(oout.res.list)}
    ELSE {oout.res}

\* the dense tensors of a call's inputs, with their place in the inputs
DenseInputs ==
    IF oin.is_list
    THEN {k \in 1..Len(oin.inputs) : oin.inputs[k].kind = "dense"}
    ELSE IF oin.inputs.kind = "dense" THEN {0} ELSE {}

InputAt(k) == IF k = 0 THEN oin.inputs ELSE oin.inputs[k]
OutputAt(k) == IF k = 0 THEN oout.res ELSE oout.res.list[k]

C23_ListOfRaggedUnchanged ==
    (Called("assert_ragged_input_rank") /\ ~oin.has_mask /\ oin.has_ragged_rank) =>
        /\ (/\ oin.is_list
            /\ \A k \in 1..Len(oin.inputs) :
                  /\ oin.inputs[k].kind = "ragged"
                  /\ oin.inputs[k].ragged_rank = oin.ragged_rank)
              => oout.res = [list |-> oin.inputs]
        /\ (/\ ~oin.is_list
            /\ oin.inputs.kind = "ragged"
            /\ oin.inputs.ragged_rank # oin.ragged_rank)
              => oout.res = Err("AssertionError")

(***************************************************************************)
(* map_values and the ragged partition (SpecMap)                           *)
(***************************************************************************)
MapItemsOf(c) == IF c.is_list THEN c.inputs ELSE <<c.inputs>>

AllRaggedRankOne(c) ==
    \A k \in 1..Len(MapItemsOf(c)) :
        MapItemsOf(c)[k].kind = "ragged" /\ MapItemsOf(c)[k].ragged_rank = 1

FlatValuesOf(c) == [k \in 1..Len(MapItemsOf(c)) |-> MapItemsOf(c)[k].t.values]

\* the ragged tensors a call returned, each with its position in the output
ReturnedRagged(res) ==
    IF IsError(res) \/ "opaque" \in DOMAIN res THEN {}
    ELSE IF "one" \in DOMAIN res
    THEN IF IsError(res.one) THEN {} ELSE {<<1, res.one>>}
    ELSE {<<k, res.list[k]>> : k \in {j \in 1..Len(res.list) : ~IsError(res.list[j])}}

\* output k of the call carries the row splits of its input and holds row k
\* of what fun makes of the flat values under the given axis
OnInputPartition(c, call, axis) ==
    LET out == FunValues(c.fun, FlatValuesOf(c), axis)
    IN  \A r \in ReturnedRagged(call.res) :
            /\ ~IsError(out)
            /\ c.is_list /\ "list" \in DOMAIN call.res => r[1] <= Len(MapItemsOf(c))
            /\ "list" \in DOMAIN call.res <=> "list" \in DOMAIN out
            /\ r[2].t.row_splits =
                   MapItemsOf(c)[IF c.is_list /\ "list" \in DOMAIN call.res
                                 THEN r[1] ELSE 1].t.row_splits
            /\ r[2].t.values = IF "one" \in DOMAIN out THEN out.one ELSE out.list[r[1]]

\* C24 as stated: whenever map_values is called with a ragged tensor of
\* ragged_rank 1 or a list of such tensors, every ragged tensor it returns
\* has the row splits of the input (the first input for a single output, the
\* i-th input for the i-th output of a list) and its flat rows are fun
\* applied to the inputs' flat values.
C24_PartitionNeverChanges ==
    Called("map_values") /\ AllRaggedRankOne(oin)
        => OnInputPartition(oin, oout.call, oout.call.axis)

\* C24: on the value path (one ragged tensor of ragged_rank 1, or a list of
\* them with ragged_validate off, and no axis or every axis > 1) every ragged
\* tensor map_values returns has the row splits of its input and its flat
\* rows are fun applied to the inputs' flat values with the lowered axis; a
\* list output longer than a list input is an IndexError, and with
\* ragged_validate on an output whose rows do not fit the splits is an
\* error.  On every other call the result is fun(inputs, **kwargs) as fun
\* returns it.
C24_PartitionKeptOnValuePath ==
    Called("map_values") /\ AllRaggedRankOne(oin) =>
        LET call == oout.call
            out == FunValues(oin.fun, FlatValuesOf(oin), call.axis)
        IN  IF call.path = "values"
            THEN /\ OnInputPartition(oin, call, call.axis)
                 /\ IsError(call.res) <=>
                        \/ IsError(out)
                        \/ oin.is_list /\ "list" \in DOMAIN out
                               /\ Len(out.list) > Len(oin.inputs)
                 /\ ~IsError(call.res) /\ "one" \in DOMAIN call.res =>
                        (IsError(call.res.one) <=>
                            oin.ragged_validate
                                /\ ~SplitsFit(MapItemsOf(oin)[1].t.row_splits, Len(out.one)))
            ELSE call.res = FunRagged(oin.fun, MapItemsOf(oin), oin.axis)

\* a list of two tensors with different row splits went down the value path
\* and came back as a list of two
C24_Witness ==
    /\ Called("map_values") /\ AllRaggedRankOne(oin)
    /\ oout.call.path = "values"
    /\ oin.is_list /\ Len(oin.inputs) = 2
    /\ oin.inputs[1].t.row_splits # oin.inputs[2].t.row_splits
    /\ ~IsError(oout.call.res) /\ "list" \in DOMAIN oout.call.res
    /\ Cardinality(ReturnedRagged(oout.call.res)) = 2

(***************************************************************************)
(* read_in_memory (SpecTu)                                                 *)
(***************************************************************************)
ReadDone == ain # None /\ aout # None /\ aout.op = "read_in_memory"

\* the shift read_in_memory applies to the ids of both files
ShiftOf(f) == IF Shifts(f.g_a, f.g_n_id) THEN 1 ELSE 0

\* the graph (0-based id) of node id v of the adjacency file
GraphOfNodeId(f, v) == f.g_n_id[v - ShiftOf(f) + 1] - ShiftOf(f)

\* every adjacency line connects two nodes of the indicator file which are
\* of the same graph
EdgesWithinGraphs(f) ==
    \A l \in 1..Len(f.g_a) :
        /\ \A c \in 1..2 : f.g_a[l][c] - ShiftOf(f) \in 0..(Len(f.g_n_id) - 1)
        /\ GraphOfNodeId(f, f.g_a[l][1]) = GraphOfNodeId(f, f.g_a[l][2])

\* the adjacency lines come graph after graph
LinesSortedByGraph(f) ==
    \A l \in 1..(Len(f.g_a) - 1) :
        GraphOfNodeId(f, f.g_a[l][1]) <= GraphOfNodeId(f, f.g_a[l + 1][1])

\* C26: after read_in_memory, for an adjacency file whose lines each connect
\* two nodes of one graph, in any line order, every edge-index pair stored
\* for graph i holds positions in [0, node count of graph i) and was read
\* from a line whose endpoints are nodes of graph i, and the per-graph edge
\* counts sum to the number of adjacency lines.
C26_EdgesStayInTheirGraph ==
    ReadDone /\ ~IsError(aout.self) /\ EdgesWithinGraphs(ain) =>
        LET self == aout.self
        IN  /\ \A g \in 1..self.length : \A k \in 1..Len(self.edge_indices[g]) :
                   /\ \A c \in 1..2 : self.edge_indices[g][k][c] \in 0..(self.graphlen[g] - 1)
                   /\ GraphOfNodeId(ain, ain.g_a[self.edge_lines[g][k]][1]) = g - 1
            /\ SumSeq([g \in 1..self.length |-> Len(self.edge_indices[g])]) = Len(ain.g_a)

\* the ids of both files start at b
IdsStartAt(f, b) ==
    SeqMin(f.g_n_id) = b /\ SeqMin([l \in 1..Len(f.g_a) |-> SeqMin(f.g_a[l])]) = b

GraphsNamed(f) == {f.g_n_id[n] : n \in 1..Len(f.g_n_id)}

\* C29: read_in_memory serves files whose graph and node ids start at 1
\* (shifted to 0) and files whose ids already start at 0: for either, with
\* edges inside their graphs and lines graph after graph, self.length is the
\* number of graphs named in the indicator file and the per-graph node
\* counts sum to the number of indicator lines.
C29_LengthForBothIdStarts ==
    /\ ReadDone
    /\ IdsStartAt(ain, 0) \/ IdsStartAt(ain, 1)
    /\ EdgesWithinGraphs(ain) /\ LinesSortedByGraph(ain)
    => /\ ~IsError(aout.self)
       /\ aout.self.length = Cardinality(GraphsNamed(ain))
       /\ SumSeq(aout.self.graphlen) = Len(ain.g_n_id)

(***************************************************************************)
(* The tables of the ACSF constructors (SpecNew)                           *)
(***************************************************************************)
Constructed == ain # None /\ aout # None /\ aout.op = "__init__" /\ ~IsError(aout.layer)

DuplicateFree(s) == \A j, k \in 1..Len(s) : j # k => s[j] # s[k]

\* the table holds the 0-based position of every mapped element and the
\* sentinel everywhere else
TableOfPositions(layer) ==
    /\ DOMAIN layer.reverse_mapping = 0..(MaxAtomicNumber - 1)
    /\ \A k \in 1..Len(layer.element_mapping) :
           layer.reverse_mapping[layer.element_mapping[k]] = k - 1
    /\ \A a \in 0..(MaxAtomicNumber - 1) :
           (\A k \in 1..Len(layer.element_mapping) : layer.element_mapping[k] # a)
               => layer.reverse_mapping[a] = Sentinel

\* C27 as stated: after construction with a duplicate-free element_mapping
\* reverse_mapping[element_mapping[i]] = i, every other entry of the
\* 96-entry table is the sentinel, and every entry that is not the sentinel
\* is a relation index in [0, num_relations).
C27_TableIndexesRelations ==
    Constructed /\ DuplicateFree(ain.element_mapping) =>
        /\ TableOfPositions(aout.layer)
        /\ \A a \in 0..(MaxAtomicNumber - 1) :
               aout.layer.reverse_mapping[a] # Sentinel
                   => aout.layer.reverse_mapping[a] \in 0..(aout.layer.num_relations - 1)

\* C27: after construction with a duplicate-free element_mapping
\* reverse_mapping[element_mapping[i]] = i, every other entry of the
\* 96-entry table is the sentinel, and every entry that is not the sentinel
\* is a position in [0, len(element_mapping)).
C27_TableIndexesElements ==
    Constructed /\ DuplicateFree(ain.element_mapping) =>
        /\ TableOfPositions(aout.layer)
        /\ \A a \in 0..(MaxAtomicNumber - 1) :
               aout.layer.reverse_mapping[a] # Sentinel
                   => aout.layer.reverse_mapping[a] \in 0..(Len(ain.element_mapping) - 1)

\* an angular layer built on two elements and one pair relation
C27_Witness ==
    /\ Constructed /\ DuplicateFree(ain.element_mapping)
    /\ ain.cls = "ACSFAngular"
    /\ Len(ain.element_mapping) = 2
    /\ aout.layer.num_relations = 1
    /\ aout.layer.reverse_mapping[ain.element_mapping[2]] = 1

\* the axis argument has an entry <= 1
AxisAtMostOne(axis) == \E k \in 1..Len(axis.v) : axis.v[k] <= 1

\* C25: a list input takes the value path exactly when ragged_validate is
\* off, every element is ragged of ragged_rank 1 and no axis entry is <= 1;
\* any call with an axis entry <= 1 falls back; a fallback calls fun on the
\* unmodified inputs with the original kwargs, and the value path hands
\* every axis a > 1 to fun as a - 1.
C25_ValuePathSelection ==
    Called("map_values") =>
        LET call == oout.call
        IN  /\ oin.is_list =>
                   (call.path = "values" <=>
                       ~oin.ragged_validate /\ AllRaggedRankOne(oin)
                           /\ ~AxisAtMostOne(oin.axis))
            /\ AxisAtMostOne(oin.axis) => call.path = "fallback"
            /\ call.path = "fallback" =>
                   /\ call.axis = oin.axis
                   /\ AllRaggedRankOne(oin) =>
                          call.res = FunRagged(oin.fun, MapItemsOf(oin), oin.axis)
            /\ call.path = "values" =>
                   /\ call.axis.kind = oin.axis.kind
                   /\ Len(call.axis.v) = Len(oin.axis.v)
                   /\ \A k \in 1..Len(oin.axis.v) :
                          oin.axis.v[k] > 1 /\ call.axis.v[k] = oin.axis.v[k] - 1

\* a list of two ragged tensors with a list axis went down the value path
C25_Witness ==
    /\ Called("map_values")
    /\ oin.is_list /\ Len(oin.inputs) = 2 /\ ~oin.ragged_validate
    /\ oin.axis = ListAxis(<<2, 3>>)
    /\ oout.call.path = "values"
    /\ oout.call.axis = ListAxis(<<1, 2>>)

CastItemsOf(c) == IF c.is_list THEN c.inputs ELSE <<c.inputs>>

\* an item that cannot be returned as ragged: a dense tensor without
\* ragged_rank, with ragged_rank other than 1, or of rank <= ragged_rank, or
\* an object that is neither a ragged nor a dense tensor
CannotBeRagged(x, has_ragged_rank, ragged_rank) ==
    \/ x.kind = "dense" /\ (~has_ragged_rank \/ ragged_rank # 1 \/ x.rank <= ragged_rank)
    \/ x.kind \notin {"ragged", "dense"}

\* C28: assert_ragged_input_rank ends with ValueError, returning nothing,
\* whenever a mask is given and whenever one of its inputs is a dense tensor
\* with ragged_rank None, a dense tensor with ragged_rank other than 1, a
\* dense tensor of rank <= ragged_rank, or neither a ragged nor a dense
\* tensor.
C28_RejectsWithValueError ==
    /\ Called("assert_ragged_input_rank")
    /\ \/ oin.has_mask
       \/ \E k \in 1..Len(CastItemsOf(oin)) :
              CannotBeRagged(CastItemsOf(oin)[k], oin.has_ragged_rank, oin.ragged_rank)
    => oout.res = Err("ValueError")

(***************************************************************************)
(* The example pass (Spec).                                                *)
(***************************************************************************)
\* node t (flat row) is the ingoing node, the first index, of some edge of
\* its graph: it has an incoming edge
HasIncomingEdge(t) ==
    Contributors(env.edge_index_input, GraphOfRow(env.node_input, t),
                 LocalPos(env.node_input, t), 1) # {}

\* C11: on the batch of graphs with 2 and 3 nodes and edges [(0, 1)] and
\* [(0, 1), (1, 2)], with depth 1 and the update previous state plus pooled
\* update, the pooled update and the change of the node state are nonzero
\* only at nodes that have an incoming edge, and the node state after the
\* pass has the partition [2, 3].
C11_ExampleUpdateOnlyAtTargets ==
    (env.node_input = ExampleBatch.node_input /\ env.edge_index_input = ExampleBatch.edge_index_input
         /\ cfg.depth = 1 /\ pc = "done") =>
        /\ RowLengths(head_in) = <<2, 3>>
        /\ Len(head_in.values) = 5
        /\ \A t \in 1..5 :
              /\ env.eu.values[t] # VZero(NodeDim) => HasIncomingEdge(t)
              /\ hist[2].values[t] # hist[1].values[t] => HasIncomingEdge(t)
        /\ head_in = hist[2]

\* the example pass has ended and the state of node 0 of the first graph has
\* changed, that of node 1 has not
C11_Witness ==
    /\ env.node_input = ExampleBatch.node_input
    /\ env.edge_index_input = ExampleBatch.edge_index_input
    /\ cfg.depth = 1 /\ pc = "done"
    /\ hist[2].values[1] # hist[1].values[1]
    /\ hist[2].values[2] = hist[1].values[2]
    /\ hist[2].values[3] # hist[1].values[3]
    /\ hist[2].values[4] # hist[1].values[4]
    /\ hist[2].values[5] = hist[1].values[5]

UnmappedNeighbor ==
    \E p \in 1..Len(ain.eij.values) :
        \A k \in 1..Len(ain.layer.element_mapping) :
            ain.layer.element_mapping[k] #
                Slice(ain.z, GraphOfRow(ain.eij, p)).values[ain.eij.values[p][2] + 1][1]

\* C5: when the neighbor atom of an edge has an atomic number that is not in
\* element_mapping, the call fails with an error, the sentinel of the
\* reverse lookup table is neither handed to the gather on the parameter
\* tensor as an index nor to the pooling as a relation id, and no output is
\* produced.
C5_UnmappedFailsFast ==
    (ain # None /\ aout # None /\ UnmappedNeighbor) =>
        /\ aout.status = "error"
        /\ Sentinel \notin aout.param_index
        /\ Sentinel \notin aout.relation_ids
        /\ aout.output = None

(***************************************************************************)
(* Properties of ACSFAngular (SpecAngular).                                *)
(***************************************************************************)
\* C13: with keep_pair_order off, exchanging the two neighbor indices of a
\* triple changes neither its relation id, nor its parameters, nor its
\* value, and the call on the changed triples returns what the call on the
\* original triples returns, for every atom.
C13_NeighborSwapInvariant ==
    (ain # None /\ aout # None /\ aout.op = "swapped" /\ ~ain.layer.keep_pair_order) =>
        LET ref == ACSFAngularCall(ain.layer, ain.z, ain.xyz, ain.ijk, ain.device)
        IN  /\ aout.res.status = ref.status
            /\ aout.res.relation_ids = ref.relation_ids
            /\ aout.res.params = ref.params
            /\ aout.res.values = ref.values
            /\ aout.res.output = ref.output

\* a triple of three different atoms with two different neighbor elements
\* was exchanged and the call returned an output
C13_Witness ==
    /\ ain # None /\ aout # None /\ aout.op = "swapped"
    /\ ~ain.layer.keep_pair_order
    /\ aout.res.status = "ok"
    /\ ain.ijk.values[aout.p][2] # ain.ijk.values[aout.p][3]
    /\ ain.ijk.values[aout.p][1] # ain.ijk.values[aout.p][2]
    /\ ain.ijk.values[aout.p][1] # ain.ijk.values[aout.p][3]
    /\ LET g == GraphOfRow(ain.ijk, aout.p)
       IN  Slice(ain.z, g).values[ain.ijk.values[aout.p][2] + 1]
               # Slice(ain.z, g).values[ain.ijk.values[aout.p][3] + 1]

\* the atomic number of the atom in slot c of triple p
ElementOfTriple(p, c) ==
    Slice(ain.z, GraphOfRow(ain.ijk, p)).values[ain.ijk.values[p][c] + 1][1]

Listed(layer, a, b) ==
    \E k \in 1..Len(layer.element_pair_mapping) : layer.element_pair_mapping[k] = <<a, b>>

Mapped(layer, a) == \E k \in 1..Len(layer.element_mapping) : layer.element_mapping[k] = a

\* C30: with keep_pair_order enabled the neighbor pair (zj, zk) of a triple
\* gets a relation id only when (zj, zk) is listed in element_pair_mapping
\* in that order, and the sentinel otherwise; and with the default
\* (generated, sorted) element_pair_mapping every pair of mapped elements,
\* in either order, gets a relation id in [0, num_relations).
C30_PairOrderKept ==
    (/\ ain # None /\ aout # None /\ aout.op = "call"
     /\ ain.layer.keep_pair_order
     /\ Len(aout.res.relation_ids) = Len(ain.ijk.values)) =>
        \A p \in 1..Len(ain.ijk.values) :
            LET zj == ElementOfTriple(p, 2)
                zk == ElementOfTriple(p, 3)
                id == aout.res.relation_ids[p]
            IN  /\ id # Sentinel <=> Listed(ain.layer, zj, zk)
                /\ (/\ ain.layer.element_pair_mapping = AutoPairMapping(ain.layer.element_mapping)
                    /\ Mapped(ain.layer, zj) /\ Mapped(ain.layer, zk))
                       => id \in 0..(ain.layer.num_relations - 1)

\* the relation id of edge p: the table entry of its neighbor atom j
RelationOfEdge(p) ==
    ain.layer.reverse_mapping[GatherSlot(ain.z, ain.eij, 2).values[p][1]]

\* C17: ACSFRadial returns one row per atom, on the partition of the
\* coordinates, of width num_relations * m; the terms of an edge whose
\* neighbor has relation id q are in slice q of the edge's center atom and in
\* no other slot, so slices of different relations share no term, and a
\* slot without a contributing edge is the empty sum 0.
C17_RelationSlices ==
    (ain # None /\ aout # None /\ "status" \in DOMAIN aout /\ aout.status = "ok") =>
        LET out == aout.output.flat
            N == ain.layer.num_relations
            m == ain.layer.m
        IN  /\ out.row_splits = ain.xyz.row_splits
            /\ Len(out.values) = Len(ain.xyz.values)
            /\ \A t \in 1..Len(out.values) : Len(out.values[t]) = N * m
            /\ \A p \in 1..Len(ain.eij.values), d \in 1..m :
                  \A t \in 1..Len(out.values), s \in 1..(N * m) :
                      <<p, d>> \in out.values[t][s]
                          <=> /\ t = FlatTarget(ain.xyz, ain.eij, 1, p)
                              /\ s = RelationOfEdge(p) * m + d
            /\ \A t \in 1..Len(out.values), s \in 1..(N * m) :
                  (~\E p \in 1..Len(ain.eij.values) :
                        /\ FlatTarget(ain.xyz, ain.eij, 1, p) = t
                        /\ RelationOfEdge(p) = (s - 1) \div m)
                      => out.values[t][s] = {}

\* an atom with edges to neighbors of two relations, two descriptors per
\* relation and both slices filled, next to an atom without edges
C17_Witness ==
    /\ ain # None /\ aout # None /\ "status" \in DOMAIN aout /\ aout.status = "ok"
    /\ ain.layer.m = 2
    /\ Len(ain.eij.values) = 2
    /\ FlatTarget(ain.xyz, ain.eij, 1, 1) = FlatTarget(ain.xyz, ain.eij, 1, 2)
    /\ RelationOfEdge(1) # RelationOfEdge(2)
    /\ \E t \in 1..Len(aout.output.flat.values) :
          /\ aout.output.flat.values[t][RelationOfEdge(1) * 2 + 2] = {<<1, 2>>}
          /\ aout.output.flat.values[t][RelationOfEdge(2) * 2 + 1] = {<<2, 1>>}
          /\ \E u \in 1..Len(aout.output.flat.values) :
                /\ u # t
                /\ \A s \in 1..Len(aout.output.flat.values[u]) :
                      aout.output.flat.values[u][s] = {}

\* C16: the cosine of the angle is guarded against division by a zero
\* distance: for a triple whose center atom coincides with a neighbor
\* (rij = 0 or rik = 0) _compute_pow_cos_angle_ divides by no zero, whatever
\* add_eps is, the default included.
C16_CosineGuarded ==
    (ain # None /\ aout # None /\ aout.op = "call" /\ aout.res.status = "ok") =>
        \A p \in 1..Len(aout.res.values) :
            ~aout.res.values[p].pow_cos_theta.division_by_zero

(***************************************************************************)
(* Properties of _compute_fc (SpecFc).                                     *)
(***************************************************************************)
\* C14: for every edge and every parameter set with cutoff radius Rc > 0 the
\* cutoff weight is exactly 0 when the distance r >= Rc, and
\* 0.5 * (cos(pi * r / Rc) + 1) when 0 <= r < Rc; radial and angular.
C14_CutoffWeight ==
    (ain # None /\ aout # None /\ aout.op = "_compute_fc") =>
        /\ Len(aout.fc) = Len(ain.rij)
        /\ \A p \in 1..Len(ain.rij) :
              /\ Len(aout.fc[p]) = Len(ain.params[p])
              /\ \A k \in 1..Len(ain.params[p]) :
                    LET Rc == ain.params[p][k][Len(ain.params[p][k])]
                        r == ain.rij[p]
                    IN  IF RLeq(Rc, r)
                        THEN aout.fc[p][k] = [exact |-> TRUE, val |-> RZero, angle |-> RZero]
                        ELSE aout.fc[p][k] = HalfCosPlusOne(RDiv(r, Rc))

\* one edge at distance 3/2 with the cutoffs 1 and 2: weight 0 for the
\* first parameter set, 0.5 * (cos(3/4 pi) + 1) for the second
C14_Witness ==
    /\ ain # None /\ aout # None /\ aout.op = "_compute_fc"
    /\ ain.variant = "radial"
    /\ Len(ain.rij) >= 1
    /\ ain.rij[1] = <<3, 2>>
    /\ Len(ain.params[1]) = 2
    /\ ain.params[1][1][3] = RInt(1)
    /\ ain.params[1][2][3] = RInt(2)
    /\ aout.fc[1][1] = [exact |-> TRUE, val |-> RZero, angle |-> RZero]
    /\ aout.fc[1][2] = [exact |-> FALSE, val |-> RZero, angle |-> <<3, 4>>]

LoopStepFrame ==
    pc \in {"loop", "matmul", "pool", "update"} =>
        /\ env'.edi = env.edi
        /\ env'.ed = env.ed
        /\ env'.edge_net = env.edge_net
        /\ env'.gru = env.gru
        /\ env'.edge_index_input = env.edge_index_input
        /\ env'.edge_input = env.edge_input
        /\ IF pc = "update"
           THEN i' = i + 1 /\ hist' = Append(hist, env'.n)
           ELSE i' = i /\ hist' = hist /\ env'.n = env.n

\* C20: within one forward pass only the node state changes: the edge-index
\* batch, the edge features, the per-edge matrices made from them (edge_net)
\* and the recurrent cell are the same in every iteration, and the node
\* state is reassigned exactly once per iteration, by the update.
C20_OnlyNodeStateChanges ==
    /\ [](pc \in {"loop", "matmul", "pool", "update", "done"} =>
            /\ Len(hist) = i + 1
            /\ Cardinality({k \in 1..Len(steps) : steps[k] = "update"}) = i)
    /\ [][LoopStepFrame]_vars

\* a pass of two iterations over a batch with an edge has ended: the node
\* state was assigned twice after the projection and changed each time, the
\* edge network and the cell are those made before the loop
C20_Witness ==
    /\ pc = "done"
    /\ cfg.depth = 2
    /\ Len(env.edi.values) > 0
    /\ Len(hist) = 3 /\ hist[1] # hist[2] /\ hist[2] # hist[3]
    /\ env.edge_net = StmtEmbed(env).edge_net
    /\ env.gru = [units |-> NodeDim, instance |-> 1]

(***************************************************************************)
(* Properties of TrafoEdgeNetMessages (SpecTrafo).                         *)
(***************************************************************************)
\* every edge has one (units_out, units_in) matrix and the edge partition
\* is the input's
OneMatrixPerEdge ==
    /\ ~IsError(oout.res)
    /\ oout.res.row_splits = oin.x.row_splits
    /\ Len(oout.res.values) = Len(oin.x.values)
    /\ \A p \in 1..Len(oout.res.values) :
          /\ Len(oout.res.values[p]) = oin.target_shape[1]
          /\ \A r \in 1..oin.target_shape[1] :
                Len(oout.res.values[p][r]) = oin.target_shape[2]

\* C15 as stated: the per-edge transform needs an edge feature width that
\* factors exactly into units_out x units_in; if it does every edge gets one
\* matrix and the partition is kept, if it does not the transform fails with
\* ShapeMismatch.
C15_WidthMustFactor ==
    Called("TrafoEdgeNetMessages") =>
        IF oin.x.dim = oin.target_shape[1] * oin.target_shape[2]
        THEN OneMatrixPerEdge
        ELSE oout.res = Err("ShapeMismatch")

\* C15 amended: TrafoEdgeNetMessages takes edge features of any width: its
\* dense layer maps each edge row to units_out * units_in features, which are
\* reshaped row-major to one (units_out, units_in) matrix per edge on the
\* edge partition of the input; it never fails with ShapeMismatch.
C15_AnyWidthOneMatrixPerEdge ==
    Called("TrafoEdgeNetMessages") =>
        /\ OneMatrixPerEdge
        /\ \A p \in 1..Len(oout.res.values) :
              \A r \in 1..oin.target_shape[1], c \in 1..oin.target_shape[2] :
                  oout.res.values[p][r][c] =
                      LayDense(oin.x, oin.target_shape[1] * oin.target_shape[2])
                          .values[p][(r - 1) * oin.target_shape[2] + c]

\* edge features of width 3 on the partition [1, 2] turned into 1 x 2
\* matrices
C15_Witness ==
    /\ Called("TrafoEdgeNetMessages")
    /\ oin.x.dim = 3
    /\ oin.target_shape = <<1, 2>>
    /\ oin.x.row_splits = <<0, 1, 3>>
    /\ ~IsError(oout.res)
    /\ oout.res.row_splits = <<0, 1, 3>>
    /\ oout.res.dim = <<1, 2>>

(***************************************************************************)
(* Properties of ACSFRadial under rigid motions (SpecMotion).              *)
(***************************************************************************)
\* C21: the radial symmetry function is rotation- and translation-invariant:
\* the same rigid rotation plus translation applied to all coordinates of a
\* graph leaves the ACSFRadial descriptor of every atom unchanged; the
\* coordinates enter only through the distances of the edges.
C21_RadialRigidInvariant ==
    (ain # None /\ aout # None /\ aout.op = "moved") =>
        /\ aout.moved.status = aout.res.status
        /\ aout.moved.output = aout.res.output

\* a graph with an edge between two different atoms was turned and shifted,
\* and the call returned the edge's value
C21_Witness ==
    /\ ain # None /\ aout # None /\ aout.op = "moved"
    /\ aout.R # <<<<1, 0, 0>>, <<0, 1, 0>>, <<0, 0, 1>>>>
    /\ aout.t # <<0, 0, 0>>
    /\ aout.res.status = "ok"
    /\ \E p \in 1..Len(ain.eij.values) :
          /\ GraphOfRow(ain.eij, p) = aout.g
          /\ ain.eij.values[p][1] # ain.eij.values[p][2]
          /\ aout.res.output.rep[p].r.sq > 0
          /\ aout.moved.output.rep[p].r = aout.res.output.rep[p].r
    /\ MoveGraph(ain.xyz, aout.g, aout.R, aout.t) # ain.xyz

====
